---- MODULE Spec2Model ----
(***************************************************************************)
(* Model of the ProStore catalogue backend: the product controller         *)
(* (createProduct, getAllProducts, updateProduct, deleteProduct), the      *)
(* Cloudinary upload collaborator and the price-change mailer.             *)
(*                                                                         *)
(* JavaScript values are encoded as follows.                               *)
(*   - a string is a sequence of tokens (one-character strings, or an      *)
(*     atomic piece of text that holds no separator the code looks for);   *)
(*   - undefined and null are the one-token sequences Undefined and Null;  *)
(*   - the result of parseInt / parseFloat is a record [nan, v]: NaN, or   *)
(*     the number v.  Request strings are drawn from an alphabet without   *)
(*     "." and "e", so every parsed number is an integer.                  *)
(* Every handler is an async function: one action per stretch of code      *)
(* between two awaited store operations, the store operation included.     *)
(***************************************************************************)
EXTENDS Integers, Sequences, FiniteSets, TLC

VARIABLES
    products,    \* the Producto collection: a set of documents
    clock,       \* the store's timestamp source (createdAt)
    nextId,      \* the next ObjectId the store hands out
    nreq,        \* number of requests received so far
    pc,          \* pc[p]: position of the handler running in slot p
    req,         \* req[p]: the request (query / params / body / file)
    loc,         \* loc[p]: the handler's local variables
    res,         \* res[p]: the response sent, if any
    destroyLog,  \* calls of cloudinaryInstance.uploader.destroy, in order
    mailTasks,   \* invocations of sendPriceChangeEmail, in order
    roles,       \* the Role collection (names)
    admins,      \* e-mail addresses of the users whose role is admin
    refs,        \* refs[M]: the collection of the reference entity M
    users        \* the User collection: a set of documents

vars == <<products, clock, nextId, nreq, pc, req, loc, res,
          destroyLog, mailTasks, roles, admins, refs, users>>

----------------------------------------------------------------------------
(* Bounds of the model *)

NProcs == 2
MaxRequests == 2
MaxProducts == 2
MaxClock == 1

Procs == 1..NProcs

----------------------------------------------------------------------------
(* JavaScript values *)

Undefined == <<"undefined">>
Null == <<"null">>

\* JavaScript truthiness of a value that is a string, undefined or null.
Truthy(s) == s # Undefined /\ s # Null /\ s # <<>>

NaN == [nan |-> TRUE, v |-> 0]
Num(n) == [nan |-> FALSE, v |-> n]
isNaN(x) == x.nan

Digits == {"0", "1", "2", "3", "4", "5", "6", "7", "8", "9"}

DigitVal(c) ==
    CASE c = "0" -> 0 [] c = "1" -> 1 [] c = "2" -> 2 [] c = "3" -> 3
      [] c = "4" -> 4 [] c = "5" -> 5 [] c = "6" -> 6 [] c = "7" -> 7
      [] c = "8" -> 8 [] c = "9" -> 9

\* Value of the longest run of digits of s that starts at position i.
RECURSIVE ScanDigits(_, _, _)
ScanDigits(s, i, acc) ==
    IF i > Len(s) \/ s[i] \notin Digits THEN acc
    ELSE ScanDigits(s, i + 1, acc * 10 + DigitVal(s[i]))

\* parseInt(s, 10): optional sign, then the longest prefix of digits; NaN
\* when there is no digit.  parseInt(undefined) parses the text "undefined".
parseInt(s) ==
    LET neg   == Len(s) >= 1 /\ s[1] = "-"
        start == IF neg THEN 2 ELSE 1
    IN  IF start > Len(s) \/ s[start] \notin Digits THEN NaN
        ELSE Num((IF neg THEN -1 ELSE 1) * ScanDigits(s, start, 0))

\* parseFloat(s) on the alphabet of the model (no "." and no exponent).
parseFloat(s) ==
    LET neg   == Len(s) >= 1 /\ s[1] = "-"
        start == IF neg THEN 2 ELSE 1
    IN  IF start > Len(s) \/ s[start] \notin Digits THEN NaN
        ELSE Num((IF neg THEN -1 ELSE 1) * ScanDigits(s, start, 0))

Min(a, b) == IF a < b THEN a ELSE b

\* a - b, a * b and Math.ceil(a / b) of JavaScript numbers (b > 0 in the
\* division): NaN when an operand is NaN.
JsSub(a, b) == IF isNaN(a) \/ isNaN(b) THEN NaN ELSE Num(a.v - b.v)
JsMul(a, b) == IF isNaN(a) \/ isNaN(b) THEN NaN ELSE Num(a.v * b.v)
JsCeilDiv(a, b) ==
    IF isNaN(a) \/ isNaN(b) THEN NaN
    ELSE Num(IF a.v % b.v = 0 THEN a.v \div b.v ELSE (a.v \div b.v) + 1)

ToLower(c) == CASE c = "A" -> "a" [] c = "B" -> "b" [] OTHER -> c
LowerCase(s) == [i \in 1..Len(s) |-> ToLower(s[i])]

----------------------------------------------------------------------------
(* The Producto collection (Mongoose / MongoDB) *)

\* A document of the collection (productSchema, with timestamps).
Doc(id, name, price, stock, marca, color, imagen, at) ==
    [_id |-> id, NombreProducto |-> name, PrecioVenta |-> price, stock |-> stock,
     idMarca |-> marca, idColor |-> color, imagen |-> imagen, createdAt |-> at]

\* ObjectIds of the reference collections that requests may name.
ObjectIds == {<<"m1">>, <<"m2">>, <<"c1">>}

\* { $regex: pat, $options: 'i' } for a pattern of plain letters: the name
\* contains the pattern, letter case ignored.
RegexMatchI(pat, name) ==
    \E i \in 1..(Len(name) - Len(pat) + 1) :
        LowerCase(SubSeq(name, i, i + Len(pat) - 1)) = LowerCase(pat)

NoBound == [set |-> FALSE, n |-> NaN]
Bound(x) == [set |-> TRUE, n |-> x]

\* Mongoose casts the filter against the schema before it queries: a NaN
\* for a Number path and a non-ObjectId for an ObjectId path are CastErrors.
FilterCastOk(f) ==
    /\ f.gte.set => ~isNaN(f.gte.n)
    /\ f.lte.set => ~isNaN(f.lte.n)
    /\ f.idMarca # Undefined => f.idMarca \in ObjectIds
    /\ f.idColor # Undefined => f.idColor \in ObjectIds

\* Variant of Matches: the lower price bound is exclusive.
MatchesAboveMin(f, d) ==
    /\ f.NombreProducto # Undefined => RegexMatchI(f.NombreProducto, d.NombreProducto)
    /\ f.idMarca # Undefined => d.idMarca = f.idMarca
    /\ f.idColor # Undefined => d.idColor = f.idColor
    /\ f.gte.set => d.PrecioVenta > f.gte.n.v
    /\ f.lte.set => d.PrecioVenta =< f.lte.n.v

Matches(f, d) ==
    /\ f.NombreProducto # Undefined => RegexMatchI(f.NombreProducto, d.NombreProducto)
    /\ f.idMarca # Undefined => d.idMarca = f.idMarca
    /\ f.idColor # Undefined => d.idColor = f.idColor
    /\ f.gte.set => d.PrecioVenta >= f.gte.n.v
    /\ f.lte.set => d.PrecioVenta =< f.lte.n.v

\* Variant of countDocuments: counts the collection, not the filter.
countDocumentsAll(store, f) == Cardinality(store)

countDocuments(store, f) == Cardinality({d \in store : Matches(f, d)})

SortKey(d, so) == IF so.field = "PrecioVenta" THEN d.PrecioVenta ELSE d.createdAt

\* d may come first among S under the sort so.
First(S, so) ==
    {d \in S : \A e \in S : so.dir * SortKey(d, so) =< so.dir * SortKey(e, so)}

\* All orders of S that respect the sort: the store leaves the order of
\* documents with equal sort keys open.
RECURSIVE Sorted(_, _)
Sorted(S, so) ==
    IF S = {} THEN {<<>>}
    ELSE UNION {{<<d>> \o t : t \in Sorted(S \ {d}, so)} : d \in First(S, so)}

\* Variant of SkipLimit: the limit counts from the start of the cursor.
SkipLimitFromStart(s, skip, limit) == SubSeq(s, skip + 1, Min(limit, Len(s)))

\* .skip(skip).limit(limit) of a cursor over the sequence s.
SkipLimit(s, skip, limit) == SubSeq(s, skip + 1, Min(skip + limit, Len(s)))

\* Product.find(f).sort(so).skip(skip).limit(limit): the possible results.
find(store, f, so, skip, limit) ==
    {SkipLimit(s, skip, limit) : s \in Sorted({d \in store : Matches(f, d)}, so)}

\* The store refuses a skip or limit that is not a number, and a negative skip.
PagingOk(skip, limit) ==
    /\ ~isNaN(skip) /\ ~isNaN(limit)
    /\ skip.v >= 0

----------------------------------------------------------------------------
(* Request slots *)

NoReq == [op |-> "none"]
NoLoc == [op |-> "none"]
NoRes == [status |-> 0]

\* A request is served in the first slot that is idle.
Free(p) == pc[p] = "idle" /\ \A o \in 1..(p - 1) : pc[o] # "idle"

\* The handler has returned and its response is out: the slot serves the
\* next request.
Recycle(p) ==
    /\ pc[p] = "done"
    /\ pc' = [pc EXCEPT ![p] = "idle"]
    /\ req' = [req EXCEPT ![p] = NoReq]
    /\ loc' = [loc EXCEPT ![p] = NoLoc]
    /\ res' = [res EXCEPT ![p] = NoRes]
    /\ UNCHANGED <<products, clock, nextId, nreq, destroyLog, mailTasks,
                   roles, admins, refs, users>>

Respond(p, r) ==
    /\ res' = [res EXCEPT ![p] = r]
    /\ pc' = [pc EXCEPT ![p] = "done"]

----------------------------------------------------------------------------
(* getAllProducts *)

DefaultPage == <<"1">>
DefaultLimit == <<"8">>

\* The filter built from req.query.
filterObject(q) ==
    [NombreProducto |-> IF Truthy(q.search) THEN q.search ELSE Undefined,
     idMarca        |-> IF Truthy(q.marca) THEN q.marca ELSE Undefined,
     idColor        |-> IF Truthy(q.color) THEN q.color ELSE Undefined,
     gte            |-> IF Truthy(q.minPrice) THEN Bound(parseFloat(q.minPrice)) ELSE NoBound,
     lte            |-> IF Truthy(q.maxPrice) THEN Bound(parseFloat(q.maxPrice)) ELSE NoBound]

\* Variant of sortObject: an unrecognized value sorts by price.
sortObjectByPrice(q) ==
    LET sort == IF q.sort = Undefined THEN <<"newest">> ELSE q.sort
    IN  CASE sort = <<"price-desc">> -> [field |-> "PrecioVenta", dir |-> -1]
          [] sort = <<"newest">>     -> [field |-> "createdAt", dir |-> -1]
          [] OTHER                   -> [field |-> "PrecioVenta", dir |-> 1]

\* switch (sort), with sort = 'newest' when the parameter is absent.
sortObject(q) ==
    LET sort == IF q.sort = Undefined THEN <<"newest">> ELSE q.sort
    IN  CASE sort = <<"price-asc">>  -> [field |-> "PrecioVenta", dir |-> 1]
          [] sort = <<"price-desc">> -> [field |-> "PrecioVenta", dir |-> -1]
          [] OTHER                   -> [field |-> "createdAt", dir |-> -1]

pageNum(q) == parseInt(IF q.page = Undefined THEN DefaultPage ELSE q.page)
limitNum(q) == parseInt(IF q.limit = Undefined THEN DefaultLimit ELSE q.limit)
\* Variant of skip: page * limit.
skipWholePages(q) == JsMul(pageNum(q), limitNum(q))

skip(q) == JsMul(JsSub(pageNum(q), Num(1)), limitNum(q))

ErrorListResponse == [status |-> 500, message |-> "Error al obtener los productos"]

\* From the arrival of the request to the completion of
\* Product.countDocuments(filterObject).
getAllProducts_count(p, q) ==
    /\ Free(p)
    /\ req' = [req EXCEPT ![p] = [op |-> "getAllProducts", query |-> q]]
    /\ IF FilterCastOk(filterObject(q))
       THEN LET total == countDocuments(products, filterObject(q))
            IN  /\ loc' = [loc EXCEPT ![p] =
                        [op            |-> "getAllProducts",
                         filterObject  |-> filterObject(q),
                         sortObject    |-> sortObject(q),
                         pageNum       |-> pageNum(q),
                         limitNum      |-> limitNum(q),
                         skip          |-> skip(q),
                         totalProducts |-> total,
                         totalPages    |-> JsCeilDiv(Num(total), limitNum(q))]]
                /\ pc' = [pc EXCEPT ![p] = "find"]
                /\ res' = [res EXCEPT ![p] = NoRes]
       ELSE /\ loc' = [loc EXCEPT ![p] = NoLoc]
            /\ Respond(p, ErrorListResponse)
    /\ UNCHANGED <<products, clock, nextId, nreq, destroyLog, mailTasks,
                   roles, admins, refs, users>>

\* Product.find(filterObject).sort(..).skip(..).limit(..) and the response.
getAllProducts_find(p) ==
    /\ pc[p] = "find"
    /\ req[p].op = "getAllProducts"
    /\ IF PagingOk(loc[p].skip, loc[p].limitNum)
       THEN \E page \in find(products, loc[p].filterObject, loc[p].sortObject,
                             loc[p].skip.v, loc[p].limitNum.v) :
                Respond(p, [status        |-> 200,
                            products      |-> page,
                            currentPage   |-> loc[p].pageNum,
                            totalPages    |-> loc[p].totalPages,
                            totalProducts |-> loc[p].totalProducts])
       ELSE Respond(p, ErrorListResponse)
    /\ UNCHANGED <<products, clock, nextId, nreq, req, loc, destroyLog,
                   mailTasks, roles, admins, refs, users>>

----------------------------------------------------------------------------
(* The upload collaborator (multer-storage-cloudinary, Cloudinary) *)

UploadFolder == "prostore_products"

\* public_id of the image uploaded with request rid: unique per request.
UploadName(rid) == "product-" \o ToString(rid)

NoFile == [present |-> FALSE, path |-> Undefined, filename |-> Undefined]

\* req.file after upload.single('imagen'): path is the secure URL, filename
\* the public_id with its folder.
UploadedFile(rid) ==
    [present  |-> TRUE,
     path     |-> <<"https:", "/", "/", "res", ".", "cloudinary", ".", "com", "/",
                    "upload", "/", UploadFolder, "/", UploadName(rid), ".", "jpg">>,
     filename |-> <<UploadFolder, "/", UploadName(rid)>>]

\* s.split(sep)
RECURSIVE split(_, _)
split(s, sep) ==
    IF \A i \in 1..Len(s) : s[i] # sep THEN <<s>>
    ELSE LET i == CHOOSE k \in 1..Len(s) :
                      s[k] = sep /\ \A j \in 1..(k - 1) : s[j] # sep
         IN  <<SubSeq(s, 1, i - 1)>> \o split(SubSeq(s, i + 1, Len(s)), sep)

\* parts.indexOf(x), counted from 1; 0 when x is no element (JavaScript: -1).
indexOf(parts, x) ==
    IF \E i \in 1..Len(parts) : parts[i] = x
    THEN CHOOSE i \in 1..Len(parts) :
             parts[i] = x /\ \A j \in 1..(i - 1) : parts[j] # x
    ELSE 0

\* parts.join(sep)
RECURSIVE join(_, _)
join(parts, sep) ==
    IF Len(parts) = 0 THEN <<>>
    ELSE IF Len(parts) = 1 THEN parts[1]
    ELSE parts[1] \o <<sep>> \o join(Tail(parts), sep)

\* s.substring(0, s.lastIndexOf(c)): empty when c does not occur.
beforeLast(s, c) ==
    IF \E i \in 1..Len(s) : s[i] = c
    THEN LET i == CHOOSE k \in 1..Len(s) :
                      s[k] = c /\ \A j \in (k + 1)..Len(s) : s[j] # c
         IN  SubSeq(s, 1, i - 1)
    ELSE <<>>

\* The public_id the handlers extract from a stored image URL; the empty
\* string when the URL names no prostore_products folder.
extractPublicId(imagen) ==
    LET urlParts    == split(imagen, "/")
        folderIndex == indexOf(urlParts, <<UploadFolder>>)
    IN  IF folderIndex > 0
        THEN beforeLast(join(SubSeq(urlParts, folderIndex, Len(urlParts)), "/"), ".")
        ELSE <<>>

\* cloudinaryInstance.uploader.destroy(publicId), called and not awaited.
Destroy(log, rid, publicId, why) ==
    Append(log, [rid |-> rid, publicId |-> publicId, why |-> why, state |-> "pending"])

\* Variant of cleanupUpload: the uploaded image is left in place.
cleanupUploadSkipped(log, rid, file, why) == log

\* The cleanup of the catch blocks: the image that came with the request is
\* destroyed, once.
cleanupUpload(log, rid, file, why) ==
    IF file.present /\ Truthy(file.filename)
    THEN Destroy(log, rid, file.filename, why)
    ELSE log

\* The .then / .catch of a destroy call: the outcome is written to the
\* console (kept as the state of the call), nothing else.
destroy_settled(i, ok) ==
    /\ i \in 1..Len(destroyLog)
    /\ destroyLog[i].state = "pending"
    /\ destroyLog' = [destroyLog EXCEPT ![i].state = IF ok THEN "ok" ELSE "error"]
    /\ UNCHANGED <<products, clock, nextId, nreq, pc, req, loc, res,
                   mailTasks, roles, admins, refs, users>>

----------------------------------------------------------------------------
(* Writes to the Producto collection *)

\* Schema validation of a document or an update: PrecioVenta a number >= 0,
\* stock a number, idMarca an ObjectId, idColor an ObjectId or null.
SchemaOk(d) ==
    /\ ~isNaN(d.PrecioVenta) /\ d.PrecioVenta.v >= 0
    /\ ~isNaN(d.stock)
    /\ d.idMarca \in ObjectIds
    /\ d.idColor = Null \/ d.idColor \in ObjectIds

findById(store, id) == {d \in store : d._id = id}

\* The message of the error thrown when the store cannot be reached; the
\* other errors are Mongoose's CastError and ValidationError, the E11000
\* of a unique index, and the TypeError of the handler itself.
StoreUnavailable == "store unavailable"

orNull(s) == IF Truthy(s) THEN s ELSE Null

----------------------------------------------------------------------------
(* createProduct *)

createProduct(p, body, hasFile, storeOk) ==
    LET rid  == nreq + 1
        file == IF hasFile THEN UploadedFile(rid) ELSE NoFile
        newProduct ==
            [NombreProducto |-> body.NombreProducto,
             PrecioVenta    |-> parseFloat(body.PrecioVenta),
             stock          |-> parseInt(body.stock),
             idMarca        |-> body.idMarca,
             idColor        |-> orNull(body.idColor),
             imagen         |-> IF file.present THEN file.path ELSE Null]
    IN
    /\ Free(p)
    /\ nreq < MaxRequests
    /\ nreq' = rid
    /\ req' = [req EXCEPT ![p] = [op |-> "createProduct", rid |-> rid,
                                  body |-> body, file |-> file]]
    /\ loc' = [loc EXCEPT ![p] = [op |-> "createProduct"]]
    /\ IF ~Truthy(body.NombreProducto) \/ ~Truthy(body.PrecioVenta)
          \/ ~Truthy(body.stock) \/ ~Truthy(body.idMarca)
       THEN /\ Respond(p, [status |-> 400,
                           message |-> "Nombre, Precio, Stock y Marca son obligatorios."])
            /\ UNCHANGED <<products, clock, nextId, destroyLog>>
       ELSE IF SchemaOk(newProduct) /\ storeOk
       THEN \E now \in {clock, clock + 1} :
                LET savedProduct ==
                        Doc(nextId, newProduct.NombreProducto, newProduct.PrecioVenta.v,
                            newProduct.stock.v, newProduct.idMarca, newProduct.idColor,
                            newProduct.imagen, now)
                IN  /\ now =< MaxClock
                    /\ nextId =< MaxProducts
                    /\ products' = products \cup {savedProduct}
                    /\ clock' = now
                    /\ nextId' = nextId + 1
                    /\ Respond(p, [status |-> 201, product |-> savedProduct])
                    /\ UNCHANGED destroyLog
       ELSE /\ destroyLog' = cleanupUpload(destroyLog, rid, file, "create failed")
            /\ Respond(p, [status |-> 500, message |-> "Error al crear el producto"])
            /\ UNCHANGED <<products, clock, nextId>>
    /\ UNCHANGED <<mailTasks, roles, admins, refs, users>>

----------------------------------------------------------------------------
(* sendPriceChangeEmail *)

\* The call of sendPriceChangeEmail(product, oldPrice): the function runs
\* up to its first await, Role.findOne, and returns a promise nobody awaits.
Notify(tasks, rid, product, oldPrice) ==
    Append(tasks, [rid |-> rid, product |-> product._id, oldPrice |-> oldPrice,
                   newPrice |-> product.PrecioVenta, pc |-> "findRole",
                   outcome |-> "pending"])

MailPending(i, at) == i \in 1..Len(mailTasks) /\ mailTasks[i].pc = at

\* Role.findOne({ nombre: 'admin' }) resolves.
sendPriceChangeEmail_role(i) ==
    /\ MailPending(i, "findRole")
    /\ IF "admin" \in roles
       THEN mailTasks' = [mailTasks EXCEPT ![i].pc = "findUsers"]
       ELSE mailTasks' = [mailTasks EXCEPT ![i].pc = "done", ![i].outcome = "no admin role"]
    /\ UNCHANGED <<products, clock, nextId, nreq, pc, req, loc, res,
                   destroyLog, roles, admins, refs, users>>

\* User.find({ idRol }) resolves.
sendPriceChangeEmail_users(i) ==
    /\ MailPending(i, "findUsers")
    /\ IF admins # {}
       THEN mailTasks' = [mailTasks EXCEPT ![i].pc = "sendMail"]
       ELSE mailTasks' = [mailTasks EXCEPT ![i].pc = "done", ![i].outcome = "no admin users"]
    /\ UNCHANGED <<products, clock, nextId, nreq, pc, req, loc, res,
                   destroyLog, roles, admins, refs, users>>

\* Variant of sendPriceChangeEmail_send: a failure of the provider reaches
\* the handler that dispatched the notification.
sendPriceChangeEmail_sendThrows(i, ok) ==
    /\ MailPending(i, "sendMail")
    /\ mailTasks' = [mailTasks EXCEPT ![i].pc = "done",
                                       ![i].outcome = IF ok THEN "sent" ELSE "provider failed"]
    /\ res' = [p \in Procs |->
                 IF ~ok /\ req[p].op = "updateProduct" /\ req[p].rid = mailTasks[i].rid
                 THEN [status |-> 500, message |-> "Error al actualizar el producto"]
                 ELSE res[p]]
    /\ UNCHANGED <<products, clock, nextId, nreq, pc, req, loc,
                   destroyLog, roles, admins, refs, users>>

\* transporter.sendMail resolves or throws; the throw is caught and written
\* to the console (kept as the outcome of the task).
sendPriceChangeEmail_send(i, ok) ==
    /\ MailPending(i, "sendMail")
    /\ mailTasks' = [mailTasks EXCEPT ![i].pc = "done",
                                       ![i].outcome = IF ok THEN "sent" ELSE "provider failed"]
    /\ UNCHANGED <<products, clock, nextId, nreq, pc, req, loc, res,
                   destroyLog, roles, admins, refs, users>>

----------------------------------------------------------------------------
(* updateProduct *)

\* The 500 response of the catch block, with the message of the error.
ErrorUpdateResponse(error) ==
    [status |-> 500, message |-> "Error al actualizar el producto", error |-> error]
NotFoundResponse == [status |-> 404, message |-> "Producto no encontrado"]

\* Variant of updateData: a number that does not parse is stored as 0.
updateDataZeroFallback(body, file, before) ==
    LET numericPrecioVenta == parseFloat(body.PrecioVenta)
        numericStock       == parseInt(body.stock)
    IN  [NombreProducto |-> body.NombreProducto,
         PrecioVenta    |-> IF isNaN(numericPrecioVenta) THEN Num(0) ELSE numericPrecioVenta,
         stock          |-> IF isNaN(numericStock) THEN Num(0) ELSE numericStock,
         idMarca        |-> body.idMarca,
         idColor        |-> orNull(body.idColor),
         setImagen      |-> file.present,
         imagen         |-> IF file.present THEN file.path ELSE Null]

\* updateData, from the body and the product as read.
updateData(body, file, before) ==
    LET numericPrecioVenta == parseFloat(body.PrecioVenta)
        numericStock       == parseInt(body.stock)
    IN  [NombreProducto |-> body.NombreProducto,
         PrecioVenta    |-> IF isNaN(numericPrecioVenta) THEN Num(before.PrecioVenta)
                            ELSE numericPrecioVenta,
         stock          |-> IF isNaN(numericStock) THEN Num(before.stock) ELSE numericStock,
         idMarca        |-> body.idMarca,
         idColor        |-> orNull(body.idColor),
         setImagen      |-> file.present,
         imagen         |-> IF file.present THEN file.path ELSE Null]

\* The old image is destroyed when a new one came with the request and the
\* stored URL yields a public_id.
destroysOldImage(file, oldImagePath) ==
    file.present /\ Truthy(oldImagePath) /\ Truthy(extractPublicId(oldImagePath))

\* From the arrival of the request to the call of findByIdAndUpdate:
\* Product.findById(id).lean() and the code that follows it.
updateProduct_read(p, id, body, hasFile) ==
    LET rid  == nreq + 1
        file == IF hasFile THEN UploadedFile(rid) ELSE NoFile
    IN
    /\ Free(p)
    /\ nreq < MaxRequests
    /\ nreq' = rid
    /\ req' = [req EXCEPT ![p] = [op |-> "updateProduct", rid |-> rid, id |-> id,
                                  body |-> body, file |-> file]]
    /\ IF findById(products, id) = {}
       THEN /\ loc' = [loc EXCEPT ![p] = [op |-> "updateProduct"]]
            /\ Respond(p, NotFoundResponse)
            /\ UNCHANGED destroyLog
       ELSE LET productBeforeUpdate == CHOOSE d \in findById(products, id) : TRUE
                oldImagePath        == productBeforeUpdate.imagen
            IN  /\ loc' = [loc EXCEPT ![p] =
                        [op           |-> "updateProduct",
                         productBeforeUpdate |-> productBeforeUpdate,
                         oldPrice     |-> productBeforeUpdate.PrecioVenta,
                         oldImagePath |-> oldImagePath,
                         updateData   |-> updateData(body, file, productBeforeUpdate)]]
                /\ destroyLog' =
                        IF destroysOldImage(file, oldImagePath)
                        THEN Destroy(destroyLog, rid, extractPublicId(oldImagePath), "old image")
                        ELSE destroyLog
                /\ pc' = [pc EXCEPT ![p] = "write"]
                /\ res' = [res EXCEPT ![p] = NoRes]
    /\ UNCHANGED <<products, clock, nextId, mailTasks, roles, admins, refs, users>>

\* Variant of applyUpdate: the update replaces the image reference too.
applyUpdateReplacesImagen(d, u) ==
    [d EXCEPT !.NombreProducto = u.NombreProducto,
              !.PrecioVenta = u.PrecioVenta.v,
              !.stock = u.stock.v,
              !.idMarca = u.idMarca,
              !.idColor = u.idColor,
              !.imagen = u.imagen]

\* The document findByIdAndUpdate(id, u, { new: true }) leaves in the store.
applyUpdate(d, u) ==
    [d EXCEPT !.NombreProducto = u.NombreProducto,
              !.PrecioVenta = u.PrecioVenta.v,
              !.stock = u.stock.v,
              !.idMarca = u.idMarca,
              !.idColor = u.idColor,
              !.imagen = IF u.setImagen THEN u.imagen ELSE d.imagen]

\* Variant of priceChanged: every update counts as a price change.
priceChangedAlways(oldPrice, newPrice) == TRUE

\* The price comparison that decides on the notification.
priceChanged(oldPrice, newPrice) == oldPrice # newPrice

\* The catch block of updateProduct.
updateProduct_catch(p, error) ==
    /\ destroyLog' = cleanupUpload(destroyLog, req[p].rid, req[p].file, "update failed")
    /\ Respond(p, ErrorUpdateResponse(error))
    /\ UNCHANGED <<products, mailTasks>>

\* findByIdAndUpdate(id, updateData, { new: true, runValidators: true })
\* and the rest of the handler.
updateProduct_write(p, storeOk) ==
    /\ pc[p] = "write"
    /\ req[p].op = "updateProduct"
    /\ IF ~SchemaOk(loc[p].updateData) \/ ~storeOk
       THEN updateProduct_catch(p, IF ~SchemaOk(loc[p].updateData) THEN "ValidationError"
                                   ELSE StoreUnavailable)
       ELSE IF findById(products, req[p].id) = {}
       THEN \* updatedProduct is null: reading its PrecioVenta throws
            updateProduct_catch(p, "TypeError")
       ELSE LET stored         == CHOOSE d \in findById(products, req[p].id) : TRUE
                updatedProduct == applyUpdate(stored, loc[p].updateData)
                newPrice       == updatedProduct.PrecioVenta
            IN  /\ products' = (products \ {stored}) \cup {updatedProduct}
                /\ mailTasks' = IF priceChanged(loc[p].oldPrice, newPrice)
                                THEN Notify(mailTasks, req[p].rid, updatedProduct, loc[p].oldPrice)
                                ELSE mailTasks
                /\ Respond(p, [status |-> 200, product |-> updatedProduct])
                /\ UNCHANGED destroyLog
    /\ UNCHANGED <<clock, nextId, nreq, req, loc, roles, admins, refs, users>>

----------------------------------------------------------------------------
(* deleteProduct *)

deleteProduct(p, id) ==
    LET rid == nreq + 1
    IN
    /\ Free(p)
    /\ nreq < MaxRequests
    /\ nreq' = rid
    /\ req' = [req EXCEPT ![p] = [op |-> "deleteProduct", rid |-> rid, id |-> id]]
    /\ loc' = [loc EXCEPT ![p] = [op |-> "deleteProduct"]]
    /\ IF findById(products, id) = {}
       THEN /\ Respond(p, NotFoundResponse)
            /\ UNCHANGED <<products, destroyLog>>
       ELSE LET deletedProduct == CHOOSE d \in findById(products, id) : TRUE
            IN  /\ products' = products \ {deletedProduct}
                /\ destroyLog' =
                        IF Truthy(deletedProduct.imagen)
                           /\ Truthy(extractPublicId(deletedProduct.imagen))
                        THEN Destroy(destroyLog, rid,
                                     extractPublicId(deletedProduct.imagen), "product deleted")
                        ELSE destroyLog
                /\ Respond(p, [status |-> 200, message |-> "Producto eliminado exitosamente",
                               _id |-> id])
    /\ UNCHANGED <<clock, nextId, mailTasks, roles, admins, refs, users>>

----------------------------------------------------------------------------
(* The reference entities Marca, Modelo, Color, Talla and the generic
   controller (createOne, updateOne, deleteOne) *)

Entities == {"Marca", "Modelo", "Color", "Talla"}

\* nombre carries a unique index in marcaSchema, modeloSchema and
\* colorSchema; tallaSchema declares none.
UniqueNombre(M) == M \in {"Marca", "Modelo", "Color"}

\* trim: true
RECURSIVE trim(_)
trim(s) ==
    IF Len(s) = 0 THEN s
    ELSE IF Head(s) = " " THEN trim(Tail(s))
    ELSE IF s[Len(s)] = " " THEN trim(SubSeq(s, 1, Len(s) - 1))
    ELSE s

RefDoc(id, nombre) == [_id |-> id, nombre |-> nombre]

\* The collections before any request.
EmptyRefs == [M \in Entities |-> {}]

\* Two brands and a colour, as earlier createOne requests left them.
SeededRefs ==
    [EmptyRefs EXCEPT !["Marca"] = {RefDoc(<<"m1">>, <<"a">>), RefDoc(<<"m2">>, <<"b">>)},
                      !["Color"] = {RefDoc(<<"c1">>, <<"a">>)}]

\* The _id Mongoose gives the document built for request rid.
NewObjectId(rid) == <<"n" \o ToString(rid)>>

\* A string casts to an ObjectId when it is one of the well-formed ids.
castsToObjectId(id) ==
    id \in ObjectIds \/ \E rid \in 1..(MaxRequests + 1) : id = NewObjectId(rid)

\* required: true on nombre, after the trim setter.
nombreValid(nombre) == nombre # Undefined /\ nombre # Null /\ trim(nombre) # <<>>

\* The unique index refuses a second document with the same nombre (E11000).
duplicateKey(M, coll, id, nombre) ==
    UniqueNombre(M) /\ \E d \in coll : d._id # id /\ d.nombre = nombre

\* handleError: every error of a generic handler is answered 500, with
\* the message of the error.
handleError(p, error, message) ==
    Respond(p, [status |-> 500, message |-> message, error |-> error])

ItemNotFound == [status |-> 404, message |-> "Item no encontrado"]

\* The reception of a request by a generic handler in slot p.
Receive(p, r) ==
    /\ Free(p)
    /\ nreq < MaxRequests
    /\ nreq' = nreq + 1
    /\ req' = [req EXCEPT ![p] = r]
    /\ loc' = [loc EXCEPT ![p] = [op |-> r.op]]

\* createOne(Model): new Model(req.body).save()
createOne(p, M, body, storeOk) ==
    LET rid == nreq + 1
        newItem == RefDoc(NewObjectId(rid),
                          IF nombreValid(body.nombre) THEN trim(body.nombre) ELSE Undefined)
    IN
    /\ Receive(p, [op |-> "createOne", rid |-> rid, model |-> M, body |-> body])
    /\ IF nombreValid(body.nombre) /\ storeOk
          /\ ~duplicateKey(M, refs[M], newItem._id, newItem.nombre)
       THEN /\ refs' = [refs EXCEPT ![M] = @ \cup {newItem}]
            /\ Respond(p, [status |-> 201, item |-> newItem])
       ELSE /\ handleError(p, IF ~nombreValid(body.nombre) THEN "ValidationError"
                               ELSE IF ~storeOk THEN StoreUnavailable
                               ELSE "E11000",
                            "Error al crear el item")
            /\ UNCHANGED refs
    /\ UNCHANGED <<products, clock, nextId, destroyLog, mailTasks, roles, admins, users>>

\* The update validators of findByIdAndUpdate(.., { runValidators: true }):
\* they run on the paths the update sets, before the query is sent.
updateValid(body) == body.nombre # Undefined => nombreValid(body.nombre)

\* updateOne(Model): Model.findByIdAndUpdate(id, req.body, { new: true,
\* runValidators: true })
updateOne(p, M, id, body, storeOk) ==
    LET rid == nreq + 1
        found == {d \in refs[M] : d._id = id}
    IN
    /\ Receive(p, [op |-> "updateOne", rid |-> rid, model |-> M, id |-> id, body |-> body])
    /\ IF ~castsToObjectId(id) \/ ~updateValid(body) \/ ~storeOk
       THEN /\ handleError(p, IF ~castsToObjectId(id) THEN "CastError"
                               ELSE IF ~updateValid(body) THEN "ValidationError"
                               ELSE StoreUnavailable,
                            "Error al actualizar el item")
            /\ UNCHANGED refs
       ELSE IF found = {}
       THEN /\ Respond(p, ItemNotFound)
            /\ UNCHANGED refs
       ELSE LET stored == CHOOSE d \in found : TRUE
                updatedItem == IF body.nombre = Undefined THEN stored
                               ELSE [stored EXCEPT !.nombre = trim(body.nombre)]
            IN  IF duplicateKey(M, refs[M], id, updatedItem.nombre)
                THEN /\ handleError(p, "E11000", "Error al actualizar el item")
                     /\ UNCHANGED refs
                ELSE /\ refs' = [refs EXCEPT ![M] = (@ \ {stored}) \cup {updatedItem}]
                     /\ Respond(p, [status |-> 200, item |-> updatedItem])
    /\ UNCHANGED <<products, clock, nextId, destroyLog, mailTasks, roles, admins, users>>

\* Variant of deleteOne: the products that reference the item go with it.
deleteOneCascade(p, M, id, storeOk) ==
    LET rid == nreq + 1
        found == {d \in refs[M] : d._id = id}
    IN
    /\ Receive(p, [op |-> "deleteOne", rid |-> rid, model |-> M, id |-> id])
    /\ IF ~castsToObjectId(id) \/ ~storeOk
       THEN /\ handleError(p, IF ~castsToObjectId(id) THEN "CastError" ELSE StoreUnavailable,
                            "Error al eliminar el item")
            /\ UNCHANGED <<refs, products>>
       ELSE IF found = {}
       THEN /\ Respond(p, ItemNotFound)
            /\ UNCHANGED <<refs, products>>
       ELSE /\ refs' = [refs EXCEPT ![M] = @ \ found]
            /\ products' = {d \in products : d.idMarca # id /\ d.idColor # id}
            /\ Respond(p, [status |-> 200, message |-> "Item eliminado exitosamente",
                           _id |-> id])
    /\ UNCHANGED <<clock, nextId, destroyLog, mailTasks, roles, admins, users>>

\* deleteOne(Model): Model.findByIdAndDelete(id)
deleteOne(p, M, id, storeOk) ==
    LET rid == nreq + 1
        found == {d \in refs[M] : d._id = id}
    IN
    /\ Receive(p, [op |-> "deleteOne", rid |-> rid, model |-> M, id |-> id])
    /\ IF ~castsToObjectId(id) \/ ~storeOk
       THEN /\ handleError(p, IF ~castsToObjectId(id) THEN "CastError" ELSE StoreUnavailable,
                            "Error al eliminar el item")
            /\ UNCHANGED refs
       ELSE IF found = {}
       THEN /\ Respond(p, ItemNotFound)
            /\ UNCHANGED refs
       ELSE /\ refs' = [refs EXCEPT ![M] = @ \ found]
            /\ Respond(p, [status |-> 200, message |-> "Item eliminado exitosamente",
                           _id |-> id])
    /\ UNCHANGED <<products, clock, nextId, destroyLog, mailTasks, roles, admins, users>>

----------------------------------------------------------------------------
(* Specification of the product list alone: a stored catalogue, and list
   requests served one after the other. *)

\* Four products, with equal prices and equal creation times among them.
Catalogue ==
    <<Doc(1, <<"a", "B">>, 5, 1, <<"m1">>, <<"c1">>, Null, 1),
      Doc(2, <<"b">>, 10, 1, <<"m1">>, Null, Null, 1),
      Doc(3, <<"A", "b">>, 10, 1, <<"m2">>, <<"c1">>, Null, 2),
      Doc(4, <<"a">>, 0, 1, <<"m2">>, Null, Null, 3)>>

CatalogueSize == Len(Catalogue)

\* Twenty products named "shoe", priced 10, 12, .., 48, created one by one.
ShoeCount == 20
Shoes ==
    {Doc(i, <<"s", "h", "o", "e">>, 8 + 2 * i, 1, <<"m1">>, Null, Null, i) :
        i \in 1..ShoeCount}

Stores == {{Catalogue[i] : i \in 1..n} : n \in 0..CatalogueSize} \cup {Shoes}

Opt(S) == S \cup {Undefined}

GridQueries ==
    [search   : Opt({<<"a">>, <<"B">>}),
     marca    : Opt({<<"m1">>}),
     color    : Opt({<<"c1">>}),
     minPrice : Opt({<<"5">>, <<"a">>}),
     maxPrice : Opt({<<"1", "0">>, <<>>}),
     sort     : Opt({<<"price-asc">>, <<"price-desc">>, <<"newest">>, <<"zz">>}),
     page     : Opt({<<"2">>, <<"a">>, <<"0">>}),
     limit    : Opt({<<"1">>, <<"2">>, <<"x">>})]

ExampleQuery ==
    [search |-> <<"s", "h", "o", "e">>, marca |-> Undefined, color |-> Undefined,
     minPrice |-> <<"1", "0">>, maxPrice |-> <<"5", "0">>, sort |-> Undefined,
     page |-> <<"2">>, limit |-> <<"8">>]

\* The queries put to a store: the grid to the small catalogues, the example
\* and its variations in page and sort to the twenty shoes.
ExampleQueries ==
    {[ExampleQuery EXCEPT !.page = pg, !.sort = st, !.limit = lm] :
        pg \in Opt({<<"1">>, <<"2">>, <<"3">>, <<"4">>}),
        st \in Opt({<<"price-asc">>, <<"price-desc">>}),
        lm \in Opt({<<"8">>, <<"7">>})}

Queries(store) == IF store = Shoes THEN ExampleQueries ELSE GridQueries

InitQuery ==
    /\ products \in Stores
    /\ clock = 0 /\ nextId = 1 /\ nreq = 0
    /\ pc = [p \in Procs |-> "idle"]
    /\ req = [p \in Procs |-> NoReq]
    /\ loc = [p \in Procs |-> NoLoc]
    /\ res = [p \in Procs |-> NoRes]
    /\ destroyLog = <<>> /\ mailTasks = <<>>
    /\ roles = {} /\ admins = {}
    /\ refs = EmptyRefs /\ users = {}

NextQuery ==
    \/ Free(1) /\ \E q \in Queries(products) : getAllProducts_count(1, q)
    \/ getAllProducts_find(1)
    \/ Recycle(1)

SpecQuery == InitQuery /\ [][NextQuery]_vars

----------------------------------------------------------------------------
(* Specification of the product controller: requests served concurrently
   in NProcs slots, over a store that holds one product, created earlier
   with an image. *)

Body(name, price, stock, marca, color) ==
    [NombreProducto |-> name, PrecioVenta |-> price, stock |-> stock,
     idMarca |-> marca, idColor |-> color]

\* Bodies of create requests: a complete one and one without a name.
CreateBodies ==
    {Body(<<"a">>, <<"5">>, <<"1">>, <<"m1">>, Undefined),
     Body(Undefined, <<"5">>, <<"1">>, <<"m1">>, Undefined)}

\* Bodies of update requests: two prices, a price that does not parse and
\* a negative price, with the stored stock; and a stock that does not
\* parse and another stock.
UpdateBodies ==
    {Body(<<"a">>, pr, <<"1">>, <<"m1">>, Undefined) :
        pr \in {<<"5">>, <<"7">>, <<"x">>, <<"-", "5">>}}
    \cup {Body(<<"a">>, <<"7">>, <<"x">>, <<"m1">>, Undefined),
          Body(<<"a">>, <<"x">>, <<"2">>, <<"m1">>, Undefined)}

NoFilter ==
    [search |-> Undefined, marca |-> Undefined, color |-> Undefined,
     minPrice |-> Undefined, maxPrice |-> Undefined, sort |-> Undefined,
     page |-> Undefined, limit |-> Undefined]

ListQueries == {[NoFilter EXCEPT !.minPrice = <<"7">>]}

Ids == 1..MaxProducts

StoredProduct ==
    Doc(1, <<"a">>, 5, 1, <<"m1">>, Null, UploadedFile(0).path, 0)

\* The roles are seeded or not yet, and an administrator is registered or not.
Init ==
    /\ products = {StoredProduct}
    /\ clock = 0 /\ nextId = 2 /\ nreq = 0
    /\ pc = [p \in Procs |-> "idle"]
    /\ req = [p \in Procs |-> NoReq]
    /\ loc = [p \in Procs |-> NoLoc]
    /\ res = [p \in Procs |-> NoRes]
    /\ destroyLog = <<>> /\ mailTasks = <<>>
    /\ \/ roles = {} /\ admins = {}
       \/ roles = {"admin", "cliente"} /\ admins = {}
       \/ roles = {"admin", "cliente"} /\ admins = {"admin@prostore"}
    /\ refs = SeededRefs /\ users = {}

Next ==
    \/ \E p \in Procs : Free(p) /\ \E b \in CreateBodies, f, ok \in BOOLEAN :
            createProduct(p, b, f, ok)
    \/ \E p \in Procs : Free(p) /\ \E q \in ListQueries : getAllProducts_count(p, q)
    \/ \E p \in Procs : getAllProducts_find(p)
    \/ \E p \in Procs : Free(p) /\ \E id \in Ids, b \in UpdateBodies, f \in BOOLEAN :
            updateProduct_read(p, id, b, f)
    \/ \E p \in Procs, ok \in BOOLEAN : updateProduct_write(p, ok)
    \/ \E p \in Procs : Free(p) /\ \E id \in Ids : deleteProduct(p, id)
    \/ \E p \in Procs : Recycle(p)
    \/ \E i \in 1..Len(destroyLog), ok \in BOOLEAN : destroy_settled(i, ok)
    \/ \E i \in 1..Len(mailTasks) : sendPriceChangeEmail_role(i)
    \/ \E i \in 1..Len(mailTasks) : sendPriceChangeEmail_users(i)
    \/ \E i \in 1..Len(mailTasks), ok \in BOOLEAN : sendPriceChangeEmail_send(i, ok)

Spec == Init /\ [][Next]_vars

----------------------------------------------------------------------------
(* Specification of the generic controller: requests for the four
   reference entities over a store that holds a product with a brand and a
   colour. *)

CatalogProduct == Doc(1, <<"a">>, 5, 1, <<"m1">>, <<"c1">>, Null, 0)

\* Ids that requests name: the well-formed ones, the id of the first
\* document created, and a string that is no ObjectId.
RefIds == ObjectIds \cup {NewObjectId(1), <<"x">>}

\* Bodies: no nombre, an empty one, and names with and without blanks.
RefBodies == [nombre : {Undefined, <<>>, <<"a">>, <<" ", "b">>, <<"c">>}]

InitCatalog ==
    /\ products = {CatalogProduct}
    /\ clock = 0 /\ nextId = 2 /\ nreq = 0
    /\ pc = [p \in Procs |-> "idle"]
    /\ req = [p \in Procs |-> NoReq]
    /\ loc = [p \in Procs |-> NoLoc]
    /\ res = [p \in Procs |-> NoRes]
    /\ destroyLog = <<>> /\ mailTasks = <<>>
    /\ roles = {} /\ admins = {} /\ users = {}
    /\ refs \in {EmptyRefs, SeededRefs}

NextCatalog ==
    \/ \E p \in Procs : Free(p) /\ \E M \in Entities, b \in RefBodies, ok \in BOOLEAN :
            createOne(p, M, b, ok)
    \/ \E p \in Procs : Free(p) /\ \E M \in Entities, id \in RefIds, b \in RefBodies,
                                       ok \in BOOLEAN :
            updateOne(p, M, id, b, ok)
    \/ \E p \in Procs : Free(p) /\ \E M \in Entities, id \in RefIds, ok \in BOOLEAN :
            deleteOne(p, M, id, ok)
    \/ \E p \in Procs : Recycle(p)

SpecCatalog == InitCatalog /\ [][NextCatalog]_vars

----------------------------------------------------------------------------
(* createInitialRoles, run when the server starts listening; slot p is a
   server process started against the database *)

RoleNames == {"admin", "cliente"}

\* Role.countDocuments() and what follows it: the return when a role is
\* there, or the two save calls handed to Promise.all.  A failure of the
\* count is caught and written to the console.
createInitialRoles_count(p, ok) ==
    /\ Free(p)
    /\ nreq < MaxRequests
    /\ nreq' = nreq + 1
    /\ req' = [req EXCEPT ![p] = [op |-> "createInitialRoles", rid |-> nreq + 1]]
    /\ res' = [res EXCEPT ![p] = NoRes]
    /\ IF ~ok
       THEN /\ loc' = [loc EXCEPT ![p] = [op |-> "createInitialRoles", count |-> "failed",
                                          admin |-> "none", cliente |-> "none"]]
            /\ pc' = [pc EXCEPT ![p] = "done"]
       ELSE IF Cardinality(roles) > 0
       THEN /\ loc' = [loc EXCEPT ![p] = [op |-> "createInitialRoles", count |-> "ok",
                                          admin |-> "none", cliente |-> "none"]]
            /\ pc' = [pc EXCEPT ![p] = "done"]
       ELSE /\ loc' = [loc EXCEPT ![p] = [op |-> "createInitialRoles", count |-> "ok",
                                          admin |-> "pending", cliente |-> "pending"]]
            /\ pc' = [pc EXCEPT ![p] = "saving"]
    /\ UNCHANGED <<products, clock, nextId, destroyLog, mailTasks, roles, admins, refs, users>>

\* One of the two new Role({ nombre }).save() settles: the role is stored,
\* or the save is refused (the unique index on nombre, or the store is out
\* of reach).  Promise.all settles with the second of them.
createInitialRoles_save(p, nombre, ok) ==
    /\ pc[p] = "saving"
    /\ req[p].op = "createInitialRoles"
    /\ loc[p][nombre] = "pending"
    /\ LET saved == ok /\ nombre \notin roles
           after == [loc[p] EXCEPT ![nombre] = IF saved THEN "saved" ELSE "failed"]
       IN  /\ roles' = IF saved THEN roles \cup {nombre} ELSE roles
           /\ loc' = [loc EXCEPT ![p] = after]
           /\ pc' = [pc EXCEPT ![p] =
                        IF \A n \in RoleNames : after[n] # "pending" THEN "done" ELSE "saving"]
    /\ UNCHANGED <<products, clock, nextId, nreq, req, res, destroyLog, mailTasks,
                   admins, refs, users>>

----------------------------------------------------------------------------
(* Specification of the role seeding: server processes started, one after
   the other or together, against a database that is new or seeded. *)

InitSeed ==
    /\ products = {}
    /\ clock = 0 /\ nextId = 1 /\ nreq = 0
    /\ pc = [p \in Procs |-> "idle"]
    /\ req = [p \in Procs |-> NoReq]
    /\ loc = [p \in Procs |-> NoLoc]
    /\ res = [p \in Procs |-> NoRes]
    /\ destroyLog = <<>> /\ mailTasks = <<>>
    /\ admins = {} /\ users = {} /\ refs = EmptyRefs
    /\ roles \in {{}, RoleNames}

NextSeed ==
    \/ \E p \in Procs : Free(p) /\ \E ok \in BOOLEAN : createInitialRoles_count(p, ok)
    \/ \E p \in Procs, nombre \in RoleNames, ok \in BOOLEAN :
            createInitialRoles_save(p, nombre, ok)
    \/ \E p \in Procs : Recycle(p)

SpecSeed == InitSeed /\ [][NextSeed]_vars

----------------------------------------------------------------------------
(* The auth gate (protect) and the routes *)

\* process.env.JWT_SECRET
JWT_SECRET == "JWT_SECRET"

\* Ids of the users the store holds before any request.
UserIds == {<<"u1">>, <<"u2">>}

\* jwt.sign({ id, role }, JWT_SECRET, { expiresIn: '1d' }): the text of the
\* token; it expires after every time of the model.
sign(id, role) == "jwt." \o id[1] \o "." \o role

\* What jwt.verify finds in the tokens that loginUser and registerClient
\* sign.
SignedTokens ==
    LET payloads == {[key |-> JWT_SECRET, exp |-> MaxClock + 1, id |-> id, role |-> role] :
                        id \in UserIds \cup {NewObjectId(rid) : rid \in 1..(MaxRequests + 1)},
                        role \in RoleNames}
    IN  [token \in {sign(t.id, t.role) : t \in payloads} |->
            CHOOSE t \in payloads : sign(t.id, t.role) = token]

\* The compact tokens in circulation and what jwt.verify finds in them:
\* the key that signed them, their expiry (exp) and their payload.  Any
\* other string is no JSON Web Token.
IssuedTokens ==
    ("jwt-admin"  :> [key |-> JWT_SECRET, exp |-> MaxClock + 1, id |-> <<"u1">>, role |-> "admin"])
    @@ ("jwt-old"    :> [key |-> JWT_SECRET, exp |-> MaxClock, id |-> <<"u2">>, role |-> "cliente"])
    @@ ("jwt-forged" :> [key |-> "another secret", exp |-> MaxClock + 1, id |-> <<"u1">>,
                         role |-> "admin"])
    @@ SignedTokens

\* jwt.verify(token, secret) at the time now: the decoded payload, or the
\* error it throws.
verify(token, secret, now) ==
    IF ~Truthy(token) THEN [ok |-> FALSE, error |-> "jwt must be provided"]
    ELSE IF Len(token) # 1 \/ token[1] \notin DOMAIN IssuedTokens
    THEN [ok |-> FALSE, error |-> "jwt malformed"]
    ELSE LET t == IssuedTokens[token[1]]
         IN  IF t.key # secret THEN [ok |-> FALSE, error |-> "invalid signature"]
             ELSE IF now >= t.exp THEN [ok |-> FALSE, error |-> "jwt expired"]
             ELSE [ok |-> TRUE, decoded |-> [id |-> t.id, role |-> t.role]]

\* s.startsWith(prefix)
startsWith(s, prefix) == Len(s) >= Len(prefix) /\ SubSeq(s, 1, Len(prefix)) = prefix

\* The routers: method, path and the chain of middleware that ends with
\* the handler.
Route(method, path, chain) == [method |-> method, path |-> path, chain |-> chain]

Resources == [Marca |-> "marcas", Modelo |-> "modelos", Color |-> "colores", Talla |-> "tallas"]

createCrudRoutes(M) ==
    {Route("GET",    <<"api", Resources[M]>>,        <<"getAll">>),
     Route("POST",   <<"api", Resources[M]>>,        <<"protect", "createOne">>),
     Route("PUT",    <<"api", Resources[M], ":id">>, <<"protect", "updateOne">>),
     Route("DELETE", <<"api", Resources[M], ":id">>, <<"protect", "deleteOne">>)}

catalogRoutes == UNION {createCrudRoutes(M) : M \in Entities}

authRoutes ==
    {Route("POST", <<"api", "auth", "login">>,           <<"loginUser">>),
     Route("POST", <<"api", "auth", "register-admin">>,  <<"protect", "registerAdmin">>),
     Route("POST", <<"api", "auth", "register-client">>, <<"registerClient">>)}

userRoutes ==
    {Route("GET",    <<"api", "users", "admins">>, <<"protect", "getAdminUsers">>),
     Route("PUT",    <<"api", "users", ":id">>,    <<"protect", "updateUser">>),
     Route("DELETE", <<"api", "users", ":id">>,    <<"protect", "deleteUser">>)}

productRoutes ==
    {Route("GET",    <<"api", "products">>,               <<"getAllProducts">>),
     Route("POST",   <<"api", "products">>,               <<"protect", "upload", "createProduct">>),
     Route("PUT",    <<"api", "products", ":id">>,        <<"protect", "upload", "updateProduct">>),
     Route("DELETE", <<"api", "products", ":id">>,        <<"protect", "deleteProduct">>),
     Route("GET",    <<"api", "products", "export">>,     <<"protect", "exportProducts">>),
     Route("POST",   <<"api", "products", "upload">>,
                     <<"protect", "uploadExcel", "uploadMassProducts">>),
     Route("GET",    <<"api", "products", ":id", "pdf">>, <<"protect", "getProductPdf">>)}

\* Variant of Routes: the user router is mounted without its gate.
RoutesUsersOpen ==
    productRoutes \cup authRoutes \cup catalogRoutes
    \cup {Route(r.method, r.path, SubSeq(r.chain, 2, Len(r.chain))) : r \in userRoutes}

\* app.use(...): the routes of the application.
Routes == productRoutes \cup authRoutes \cup userRoutes \cup catalogRoutes

\* The element of the chain that runs next for the request in slot p.
Stage(p) == IF pc[p] = "chain" THEN req[p].route.chain[loc[p].at] ELSE "none"

\* next(): the chain moves on.
next(p, l) == loc' = [loc EXCEPT ![p] = [l EXCEPT !.at = @ + 1]]

\* A request for route r arrives with the Authorization header given.
dispatch(p, r, authorization) ==
    /\ Free(p)
    /\ nreq < MaxRequests
    /\ nreq' = nreq + 1
    /\ req' = [req EXCEPT ![p] = [op |-> r.chain[Len(r.chain)], rid |-> nreq + 1, route |-> r,
                                  authorization |-> authorization, userId |-> Undefined]]
    /\ loc' = [loc EXCEPT ![p] = [op |-> "route", at |-> 1, sends |-> 0, handled |-> FALSE]]
    /\ pc' = [pc EXCEPT ![p] = "chain"]
    /\ res' = [res EXCEPT ![p] = NoRes]
    /\ UNCHANGED <<products, clock, nextId, destroyLog, mailTasks, roles, admins, refs, users>>

Unauthorized(message) == [status |-> 401, message |-> message]

\* What protect reads in the Authorization header at the time now: whether
\* the header starts with Bearer, the token, and the outcome of jwt.verify.
credential(authorization, now) ==
    LET bearer == Truthy(authorization) /\ startsWith(authorization, <<"Bearer">>)
        parts  == split(authorization, " ")
        token  == IF bearer /\ Len(parts) >= 2 THEN parts[2] ELSE Undefined
    IN  [bearer |-> bearer, token |-> token, v |-> verify(token, JWT_SECRET, now)]

\* protect(req, res, next).  The header has to start with Bearer; the
\* token is what follows its first blank.  When jwt.verify throws, the
\* catch block answers 401, and when the token is then undefined or empty
\* the final test calls res.status(401).json a second time, on a response
\* that is already sent: the client keeps the first answer.
protect(p) ==
    LET bearer == credential(req[p].authorization, clock).bearer
        token  == credential(req[p].authorization, clock).token
        v      == credential(req[p].authorization, clock).v
    IN
    /\ Stage(p) = "protect"
    /\ IF bearer /\ v.ok
       THEN /\ req' = [req EXCEPT ![p].userId = v.decoded.id]
            /\ next(p, loc[p])
            /\ UNCHANGED <<pc, res>>
       ELSE IF bearer
       THEN /\ Respond(p, Unauthorized("Token no valido o expirado"))
            /\ loc' = [loc EXCEPT ![p].sends = IF Truthy(token) THEN 1 ELSE 2]
            /\ UNCHANGED req
       ELSE /\ Respond(p, Unauthorized("No autorizado, no se proporciono token"))
            /\ loc' = [loc EXCEPT ![p].sends = 1]
            /\ UNCHANGED req
    /\ UNCHANGED <<products, clock, nextId, nreq, destroyLog, mailTasks, roles, admins,
                   refs, users>>

\* upload.single('imagen') and uploadExcel.single('excelFile'): the file of
\* the request, if any, is taken in, and the chain moves on.
uploadSingle(p) ==
    /\ Stage(p) \in {"upload", "uploadExcel"}
    /\ next(p, loc[p])
    /\ UNCHANGED <<products, clock, nextId, nreq, pc, req, res, destroyLog, mailTasks,
                   roles, admins, refs, users>>

\* The handler at the end of the chain is called.
handler(p) ==
    /\ pc[p] = "chain"
    /\ loc[p].at = Len(req[p].route.chain)
    /\ loc' = [loc EXCEPT ![p].handled = TRUE, ![p].sends = 1]
    /\ Respond(p, [status |-> 200])
    /\ UNCHANGED <<products, clock, nextId, nreq, req, destroyLog, mailTasks,
                   roles, admins, refs, users>>

----------------------------------------------------------------------------
(* Specification of the routing: requests for every route, with every
   kind of Authorization header, before and after the older token expires. *)

Bearer(scheme, token) == scheme \o <<" ">> \o token

\* No header; a scheme that is not Bearer; Bearer alone and with an empty
\* token; Bearer with a token that is valid, expired at time MaxClock,
\* signed with another key, or no token at all; and a scheme that only
\* begins with Bearer.
Headers ==
    {Undefined, <<"Bearer">>, <<"Bearer", " ">>,
     Bearer(<<"Basic">>, <<"jwt-admin">>),
     Bearer(<<"Bearer">>, <<"jwt-admin">>),
     Bearer(<<"Bearer">>, <<"jwt-old">>),
     Bearer(<<"Bearer">>, <<"jwt-forged">>),
     Bearer(<<"Bearer">>, <<"abc">>),
     Bearer(<<"Bearer", "x">>, <<"jwt-admin">>)}

InitRoutes ==
    /\ products = {}
    /\ clock \in 0..MaxClock
    /\ nextId = 1 /\ nreq = 0
    /\ pc = [p \in Procs |-> "idle"]
    /\ req = [p \in Procs |-> NoReq]
    /\ loc = [p \in Procs |-> NoLoc]
    /\ res = [p \in Procs |-> NoRes]
    /\ destroyLog = <<>> /\ mailTasks = <<>>
    /\ roles = RoleNames /\ admins = {} /\ users = {} /\ refs = EmptyRefs

NextRoutes ==
    \/ Free(1) /\ \E r \in Routes, h \in Headers : dispatch(1, r, h)
    \/ protect(1)
    \/ uploadSingle(1)
    \/ handler(1)
    \/ Recycle(1)

SpecRoutes == InitRoutes /\ [][NextRoutes]_vars

----------------------------------------------------------------------------
(* The User collection (userSchema), registerAdmin, registerClient,
   updateUser and deleteUser *)

\* lowercase: true, on an alphabet with the capitals A and B.
ToLowerCase(s) ==
    [i \in 1..Len(s) |-> IF s[i] = "A" THEN "a" ELSE IF s[i] = "B" THEN "b" ELSE s[i]]

\* The setters of userSchema, on a value that is given.
setNombre(v) == IF v = Undefined \/ v = Null THEN v ELSE trim(v)
setEmail(v) == IF v = Undefined \/ v = Null THEN v ELSE ToLowerCase(trim(v))

\* match: /\S+@\S+\.\S+/
matchEmail(s) ==
    \E i \in 2..Len(s), j \in 4..Len(s) :
        /\ s[i] = "@" /\ s[j] = "." /\ j >= i + 2 /\ j < Len(s)
        /\ s[i - 1] # " " /\ s[j + 1] # " "
        /\ \A k \in (i + 1)..(j - 1) : s[k] # " "

\* bcrypt.hash(password, salt): the text of a hash starts with the version
\* and the cost, then the salt, then the digest, which stands here as the
\* text it was computed from.
bcryptHash(password, salt) == <<"$2a$10$", ToString(salt)>> \o password

UserDoc(id, nombre, email, password, idRol) ==
    [_id |-> id, nombre |-> nombre, email |-> email, password |-> password,
     idRol |-> idRol]

UserPaths == {"nombre", "email", "password"}

\* The validators of userSchema on the paths in paths (required, match,
\* minlength); they see the values the setters left.
userValid(doc, paths) ==
    /\ "nombre" \in paths => Truthy(doc.nombre)
    /\ "email" \in paths => Truthy(doc.email) /\ matchEmail(doc.email)
    /\ "password" \in paths => Truthy(doc.password) /\ Len(doc.password) >= 6

\* Variant of preSave: the hook hashes on every save.
preSaveAlways(doc, modified, salt) ==
    [doc EXCEPT !.password = bcryptHash(@, salt)]

\* userSchema.pre('save'): runs after the validation, and hashes the
\* password when the save changes it; bcrypt.genSalt gives a salt no earlier
\* hash has.
preSave(doc, modified, salt) ==
    IF "password" \notin modified THEN doc
    ELSE [doc EXCEPT !.password = bcryptHash(@, salt)]

\* The unique index on email.
emailTaken(coll, id, email) == \E u \in coll : u._id # id /\ u.email = email

\* The e-mail addresses of the users whose role is admin.
AdminEmails(coll) == {u.email : u \in {v \in coll : v.idRol = "admin"}}

\* The document as the handlers answer it: password = undefined.
Public(doc) == [doc EXCEPT !.password = Undefined]

UserError(p, status, message, error) ==
    /\ Respond(p, [status |-> status, message |-> message, error |-> error])
    /\ pc' = [pc EXCEPT ![p] = "done"]

\* The reception of a registration, up to Role.findOne: registerClient
\* first checks the fields itself.
register(p, op, body) ==
    LET rid == nreq + 1
        nombre == IF op = "registerAdmin" THEN "admin" ELSE "cliente"
    IN
    /\ Free(p)
    /\ nreq < MaxRequests
    /\ nreq' = nreq + 1
    /\ req' = [req EXCEPT ![p] = [op |-> op, rid |-> rid, body |-> body]]
    /\ loc' = [loc EXCEPT ![p] = [op |-> op, idRol |-> nombre]]
    /\ IF op = "registerClient"
          /\ (~Truthy(body.nombre) \/ ~Truthy(body.email) \/ ~Truthy(body.password))
       THEN UserError(p, 400, "Todos los campos son obligatorios.", "none")
       ELSE IF op = "registerClient" /\ Len(body.password) < 6
       THEN UserError(p, 400, "La contrasena debe tener al menos 6 caracteres.", "none")
       ELSE IF nombre \notin roles
       THEN UserError(p, 500, "Error de configuracion: el rol no existe", "none")
       ELSE /\ pc' = [pc EXCEPT ![p] = "findUser"]
            /\ UNCHANGED res
    /\ UNCHANGED <<products, clock, nextId, destroyLog, mailTasks, roles, admins,
                   refs, users>>

registerAdmin(p, body) == register(p, "registerAdmin", body)

registerClient(p, body) == register(p, "registerClient", body)

\* User.findOne({ email }) resolves; the filter is cast with the setters of
\* the path.
register_findUser(p) ==
    /\ pc[p] = "findUser"
    /\ IF \E u \in users : u.email = setEmail(req[p].body.email)
       THEN UserError(p, 400, "El email ya esta registrado", "none")
       ELSE /\ pc' = [pc EXCEPT ![p] = "saveNew"]
            /\ UNCHANGED res
    /\ UNCHANGED <<products, clock, nextId, nreq, req, loc, destroyLog, mailTasks,
                   roles, admins, refs, users>>

\* new User({ nombre, email, password, idRol }).save() resolves or throws.
register_save(p, storeOk) ==
    LET body == req[p].body
        newUser == UserDoc(NewObjectId(req[p].rid), setNombre(body.nombre),
                           setEmail(body.email), body.password, loc[p].idRol)
        savedUser == preSave(newUser, UserPaths, req[p].rid)
    IN
    /\ pc[p] = "saveNew"
    /\ pc' = [pc EXCEPT ![p] = "done"]
    /\ IF userValid(newUser, UserPaths) /\ storeOk
          /\ ~emailTaken(users, newUser._id, newUser.email)
       THEN /\ users' = users \cup {savedUser}
            /\ Respond(p, [status |-> 201, user |-> Public(savedUser),
                           token |-> IF req[p].op = "registerClient"
                                     THEN <<sign(savedUser._id, "cliente")>>
                                     ELSE Undefined])
       ELSE /\ Respond(p, [status |-> 500,
                           message |-> IF req[p].op = "registerClient"
                                       THEN "Error al registrar el usuario"
                                       ELSE "Error al registrar administrador",
                           error |-> IF ~userValid(newUser, UserPaths) THEN "ValidationError"
                                     ELSE IF ~storeOk THEN StoreUnavailable
                                     ELSE "E11000"])
            /\ UNCHANGED users
    /\ admins' = AdminEmails(users')
    /\ UNCHANGED <<products, clock, nextId, nreq, req, loc, destroyLog, mailTasks,
                   roles, refs>>

\* updateUser, up to User.findById(id).
updateUser(p, id, body) ==
    LET rid == nreq + 1
        found == {u \in users : u._id = id}
    IN
    /\ Free(p)
    /\ nreq < MaxRequests
    /\ nreq' = nreq + 1
    /\ req' = [req EXCEPT ![p] = [op |-> "updateUser", rid |-> rid, id |-> id,
                                  body |-> body]]
    /\ IF ~(castsToObjectId(id) \/ id \in UserIds)
       THEN /\ UserError(p, 500, "Error al actualizar el usuario", "CastError")
            /\ loc' = [loc EXCEPT ![p] = [op |-> "updateUser"]]
       ELSE IF found = {}
       THEN /\ UserError(p, 404, "Usuario no encontrado", "none")
            /\ loc' = [loc EXCEPT ![p] = [op |-> "updateUser"]]
       ELSE /\ pc' = [pc EXCEPT ![p] = "saveUser"]
            /\ loc' = [loc EXCEPT ![p] = [op |-> "updateUser",
                                          user |-> CHOOSE u \in found : TRUE]]
            /\ UNCHANGED res
    /\ UNCHANGED <<products, clock, nextId, destroyLog, mailTasks, roles, admins,
                   refs, users>>

\* updateUser, from the assignments to user.save(): the save validates and
\* writes the paths whose value changed, to the document of that _id.
updateUser_save(p, storeOk) ==
    LET body == req[p].body
        user == loc[p].user
        assigned ==
            [user EXCEPT
               !.nombre = IF Truthy(body.nombre) THEN setNombre(body.nombre) ELSE @,
               !.email = IF Truthy(body.email) THEN setEmail(body.email) ELSE @,
               !.password = IF Truthy(body.password) /\ Len(body.password) >= 6
                            THEN body.password ELSE @]
        modified == {path \in UserPaths : assigned[path] # user[path]}
        updatedUser == preSave(assigned, modified, req[p].rid)
        written == {path \in UserPaths : updatedUser[path] # user[path]}
        stored == {u \in users : u._id = user._id}
        Write(u) == [path \in DOMAIN u |->
                       IF path \in written THEN updatedUser[path] ELSE u[path]]
    IN
    /\ pc[p] = "saveUser"
    /\ pc' = [pc EXCEPT ![p] = "done"]
    /\ IF ~userValid(assigned, modified)
       THEN /\ Respond(p, [status |-> 500, message |-> "Error al actualizar el usuario",
                           error |-> "ValidationError"])
            /\ UNCHANGED users
       ELSE IF written = {}
       THEN /\ Respond(p, [status |-> 200, user |-> Public(updatedUser)])
            /\ UNCHANGED users
       ELSE IF ~storeOk \/ stored = {}
       THEN /\ Respond(p, [status |-> 500, message |-> "Error al actualizar el usuario",
                           error |-> IF ~storeOk THEN StoreUnavailable
                                     ELSE "DocumentNotFoundError"])
            /\ UNCHANGED users
       ELSE IF "email" \in written /\ emailTaken(users, user._id, updatedUser.email)
       THEN /\ Respond(p, [status |-> 400,
                           message |-> "El email ya esta en uso por otro usuario.",
                           error |-> "E11000"])
            /\ UNCHANGED users
       ELSE /\ users' = (users \ stored) \cup {Write(u) : u \in stored}
            /\ Respond(p, [status |-> 200, user |-> Public(updatedUser)])
    /\ admins' = AdminEmails(users')
    /\ UNCHANGED <<products, clock, nextId, nreq, req, loc, destroyLog, mailTasks,
                   roles, refs>>

\* deleteUser: User.findByIdAndDelete(id)
deleteUser(p, id, storeOk) ==
    LET rid == nreq + 1
        found == {u \in users : u._id = id}
    IN
    /\ Free(p)
    /\ nreq < MaxRequests
    /\ nreq' = nreq + 1
    /\ req' = [req EXCEPT ![p] = [op |-> "deleteUser", rid |-> rid, id |-> id]]
    /\ loc' = [loc EXCEPT ![p] = [op |-> "deleteUser"]]
    /\ IF ~(castsToObjectId(id) \/ id \in UserIds) \/ ~storeOk
       THEN /\ UserError(p, 500, "Error al eliminar el usuario",
                         IF ~storeOk THEN StoreUnavailable ELSE "CastError")
            /\ UNCHANGED users
       ELSE IF found = {}
       THEN /\ UserError(p, 404, "Usuario no encontrado", "none")
            /\ UNCHANGED users
       ELSE /\ users' = users \ found
            /\ Respond(p, [status |-> 200, message |-> "Usuario eliminado exitosamente",
                           _id |-> id])
            /\ pc' = [pc EXCEPT ![p] = "done"]
    /\ admins' = AdminEmails(users')
    /\ UNCHANGED <<products, clock, nextId, destroyLog, mailTasks, roles, refs>>

\* Variant of comparePassword: every candidate matches.
comparePasswordAny(candidatePassword, password) == TRUE

\* userSchema.methods.comparePassword: bcrypt.compare(candidate, hash)
comparePassword(candidatePassword, password) ==
    /\ Len(password) >= 2 /\ password[1] = "$2a$10$"
    /\ SubSeq(password, 3, Len(password)) = candidatePassword

\* loginUser: User.findOne({ email }).populate('idRol'), comparePassword
\* and jwt.sign.  bcrypt.compare throws on a password that is no string,
\* and user.idRol is null when no role has the id.
loginUser(p, body, storeOk) ==
    LET rid   == nreq + 1
        found == {u \in users : u.email = setEmail(body.email)}
        user  == CHOOSE u \in found : TRUE
    IN
    /\ Free(p)
    /\ nreq < MaxRequests
    /\ nreq' = nreq + 1
    /\ req' = [req EXCEPT ![p] = [op |-> "loginUser", rid |-> rid, body |-> body]]
    /\ loc' = [loc EXCEPT ![p] = [op |-> "loginUser"]]
    /\ IF ~storeOk
       THEN UserError(p, 500, "Error en el servidor al intentar iniciar sesion",
                      StoreUnavailable)
       ELSE IF found = {}
       THEN UserError(p, 401, "Credenciales invalidas (email)", "none")
       ELSE IF body.password = Undefined
       THEN UserError(p, 500, "Error en el servidor al intentar iniciar sesion",
                      "Illegal arguments")
       ELSE IF ~comparePassword(body.password, user.password)
       THEN UserError(p, 401, "Credenciales invalidas (contrasena)", "none")
       ELSE IF user.idRol \notin roles
       THEN UserError(p, 500, "Error en el servidor al intentar iniciar sesion",
                      "TypeError")
       ELSE /\ Respond(p, [status |-> 200, token |-> <<sign(user._id, user.idRol)>>,
                           user |-> Public(user)])
            /\ pc' = [pc EXCEPT ![p] = "done"]
    /\ UNCHANGED <<products, clock, nextId, destroyLog, mailTasks, roles, admins,
                   refs, users>>

\* getAdminUsers, up to Role.findOne({ nombre: 'admin' }).
getAdminUsers(p) ==
    /\ Free(p)
    /\ nreq < MaxRequests
    /\ nreq' = nreq + 1
    /\ req' = [req EXCEPT ![p] = [op |-> "getAdminUsers", rid |-> nreq + 1]]
    /\ loc' = [loc EXCEPT ![p] = [op |-> "getAdminUsers"]]
    /\ IF "admin" \notin roles
       THEN UserError(p, 500, "Error de configuracion: el rol no existe", "none")
       ELSE /\ pc' = [pc EXCEPT ![p] = "findAdmins"]
            /\ UNCHANGED res
    /\ UNCHANGED <<products, clock, nextId, destroyLog, mailTasks, roles, admins,
                   refs, users>>

\* User.find({ idRol: adminRole._id }).populate(..).select('-password')
getAdminUsers_find(p, storeOk) ==
    /\ pc[p] = "findAdmins"
    /\ IF storeOk
       THEN /\ Respond(p, [status |-> 200,
                           admins |-> {Public(u) : u \in {v \in users : v.idRol = "admin"}}])
            /\ pc' = [pc EXCEPT ![p] = "done"]
       ELSE UserError(p, 500, "Error al obtener los usuarios administradores",
                      StoreUnavailable)
    /\ UNCHANGED <<products, clock, nextId, nreq, req, loc, destroyLog, mailTasks,
                   roles, admins, refs, users>>

\* POST /api/auth/register-admin: protect, then registerAdmin, which next()
\* calls at once.
protected_registerAdmin(p, authorization, body) ==
    IF credential(authorization, clock).bearer /\ credential(authorization, clock).v.ok
    THEN registerAdmin(p, body)
    ELSE /\ Free(p)
         /\ nreq < MaxRequests
         /\ nreq' = nreq + 1
         /\ req' = [req EXCEPT ![p] = [op |-> "registerAdmin", rid |-> nreq + 1,
                                       body |-> body]]
         /\ loc' = [loc EXCEPT ![p] = [op |-> "protect"]]
         /\ Respond(p, Unauthorized(IF credential(authorization, clock).bearer
                                    THEN "Token no valido o expirado"
                                    ELSE "No autorizado, no se proporciono token"))
         /\ pc' = [pc EXCEPT ![p] = "done"]
         /\ UNCHANGED <<products, clock, nextId, destroyLog, mailTasks, roles, admins,
                        refs, users>>

----------------------------------------------------------------------------
(* Specification of the user handlers: registrations, updates and deletions
   served concurrently on a store that holds up to two users *)

Secret1 == <<"s", "e", "c", "r", "e", "t">>
Secret2 == <<"h", "u", "n", "t", "e", "r", "2">>
Short == <<"s", "h", "o", "r", "t">>

Ana == <<"a", "@", "x", ".", "p">>
Bea == <<"b", "@", "x", ".", "p">>

\* Users registered earlier: their passwords went through the hook.
StoredAdmin == UserDoc(<<"u1">>, <<"A", "n", "a">>, Ana, bcryptHash(Secret1, 0), "admin")
StoredClient == UserDoc(<<"u2">>, <<"B", "e", "a">>, Bea, bcryptHash(Secret1, 0), "cliente")

UserBody(nombre, email, password) ==
    [nombre |-> nombre, email |-> email, password |-> password]

RegisterBodies ==
    {UserBody(<<"C", "e", "l">>, <<"c", "@", "x", ".", "p">>, Secret1),
     UserBody(<<"C", "e", "l">>, <<"c", "@", "x", ".", "p">>, Short),
     UserBody(<<"C", "e", "l">>, <<" ", "A", "@", "x", ".", "p">>, Secret2),
     UserBody(<<"C", "e", "l">>, <<"c", "@", "x">>, Secret1),
     UserBody(<<" ">>, <<"c", "@", "x", ".", "p">>, Secret1),
     UserBody(Undefined, <<"c", "@", "x", ".", "p">>, Undefined)}

UpdateUserBodies ==
    {UserBody(<<"D", "o", "r", "a">>, Undefined, Undefined),
     UserBody(Undefined, Bea, Undefined),
     UserBody(Undefined, Undefined, Secret2),
     UserBody(Undefined, Undefined, Secret1),
     UserBody(<<"D", "o", "r", "a">>, Undefined, Short),
     UserBody(<<" ">>, <<"c", "@", "x">>, <<>>),
     UserBody(Undefined, Undefined, Undefined)}

UserRequestIds == UserIds \cup {NewObjectId(1), <<"x">>}

LoginBodies ==
    {[email |-> Ana, password |-> Secret1],
     [email |-> <<"A", "@", "x", ".", "p">>, password |-> Secret1],
     [email |-> Ana, password |-> Secret2],
     [email |-> Ana, password |-> Undefined],
     [email |-> <<"c", "@", "x", ".", "p">>, password |-> Secret1],
     [email |-> Undefined, password |-> Secret1]}

InitUsers ==
    /\ products = {}
    /\ clock = 0 /\ nextId = 1 /\ nreq = 0
    /\ pc = [p \in Procs |-> "idle"]
    /\ req = [p \in Procs |-> NoReq]
    /\ loc = [p \in Procs |-> NoLoc]
    /\ res = [p \in Procs |-> NoRes]
    /\ destroyLog = <<>> /\ mailTasks = <<>>
    /\ refs = EmptyRefs
    /\ roles \in {{}, RoleNames}
    /\ users \in {{}, {StoredAdmin}, {StoredAdmin, StoredClient}}
    /\ admins = AdminEmails(users)

NextUsers ==
    \/ \E p \in Procs : Free(p) /\ \E body \in RegisterBodies : registerAdmin(p, body)
    \/ \E p \in Procs : Free(p) /\ \E body \in RegisterBodies : registerClient(p, body)
    \/ \E p \in Procs : register_findUser(p)
    \/ \E p \in Procs, storeOk \in BOOLEAN : register_save(p, storeOk)
    \/ \E p \in Procs :
         Free(p) /\ \E id \in UserRequestIds, body \in UpdateUserBodies : updateUser(p, id, body)
    \/ \E p \in Procs, storeOk \in BOOLEAN : updateUser_save(p, storeOk)
    \/ \E p \in Procs :
         Free(p) /\ \E id \in UserRequestIds, storeOk \in BOOLEAN : deleteUser(p, id, storeOk)
    \/ \E p \in Procs :
         Free(p) /\ \E body \in LoginBodies, storeOk \in BOOLEAN : loginUser(p, body, storeOk)
    \/ \E p \in Procs : Free(p) /\ getAdminUsers(p)
    \/ \E p \in Procs, storeOk \in BOOLEAN : getAdminUsers_find(p, storeOk)
    \/ \E p \in Procs : Recycle(p)

SpecUsers == InitUsers /\ [][NextUsers]_vars

----------------------------------------------------------------------------
(* Specification of the accounts: public registrations and logins, and
   registrations of administrators with the tokens that the responses
   handed out, over a store without administrators *)

\* The tokens that the requests answered so far have received.
TokensHandedOut ==
    {res[q].token : q \in {o \in Procs : pc[o] = "done" /\ res[o].status \in {200, 201}
                                          /\ req[o].op \in {"registerClient", "loginUser"}}}

AccountBodies ==
    {UserBody(<<"C", "e", "l">>, <<"c", "@", "x", ".", "p">>, Secret1),
     UserBody(<<"D", "o", "r", "a">>, <<"d", "@", "x", ".", "p">>, Secret2),
     UserBody(<<"C", "e", "l">>, <<"c", "@", "x", ".", "p">>, Short)}

AccountLogins ==
    {[email |-> Bea, password |-> Secret1],
     [email |-> Bea, password |-> Secret2],
     [email |-> <<"c", "@", "x", ".", "p">>, password |-> Secret1]}

InitAccounts ==
    /\ products = {}
    /\ clock \in 0..MaxClock
    /\ nextId = 1 /\ nreq = 0
    /\ pc = [p \in Procs |-> "idle"]
    /\ req = [p \in Procs |-> NoReq]
    /\ loc = [p \in Procs |-> NoLoc]
    /\ res = [p \in Procs |-> NoRes]
    /\ destroyLog = <<>> /\ mailTasks = <<>>
    /\ refs = EmptyRefs
    /\ roles = RoleNames
    /\ users \in {{}, {StoredClient}}
    /\ admins = {}

NextAccounts ==
    \/ \E p \in Procs : Free(p) /\ \E body \in AccountBodies : registerClient(p, body)
    \/ \E p \in Procs : register_findUser(p)
    \/ \E p \in Procs, storeOk \in BOOLEAN : register_save(p, storeOk)
    \/ \E p \in Procs :
         Free(p) /\ \E body \in AccountLogins, storeOk \in BOOLEAN : loginUser(p, body, storeOk)
    \/ \E p \in Procs :
         Free(p) /\ \E body \in AccountBodies,
                       authorization \in {Undefined, Bearer(<<"Bearer">>, <<"abc">>)}
                                         \cup {Bearer(<<"Bearer">>, t) : t \in TokensHandedOut} :
             protected_registerAdmin(p, authorization, body)
    \/ \E p \in Procs : Recycle(p)

SpecAccounts == InitAccounts /\ [][NextAccounts]_vars

----------------------------------------------------------------------------
(* uploadMassProducts: the sheet of the uploaded Excel file, read with the
   headers 'Nombre Producto', 'Precio Venta', 'stock' and 'Marca ID'; a row
   is the record of its cells, Undefined for an empty cell *)

MaxRows == 2

Row(name, price, stock, marca) ==
    [NombreProducto |-> name, PrecioVenta |-> price, stock |-> stock, idMarca |-> marca]

NoSheet == [present |-> FALSE, rows |-> <<>>]
Sheet(rows) == [present |-> TRUE, rows |-> rows]

\* const numValue = parseFloat(cellValue); isNaN(numValue) ? 0 : numValue
numberOrZero(cellValue) ==
    LET numValue == parseFloat(cellValue)
    IN  IF isNaN(numValue) THEN Num(0) ELSE numValue

given(cellValue) == cellValue # Undefined /\ cellValue # Null

\* The object built from a row by the headers.forEach loop; has.f tells
\* whether the field f was assigned.
productData(row) ==
    [has            |-> [f \in DOMAIN row |-> given(row[f])],
     NombreProducto |-> IF given(row.NombreProducto) THEN trim(row.NombreProducto)
                        ELSE Undefined,
     PrecioVenta    |-> IF given(row.PrecioVenta) THEN numberOrZero(row.PrecioVenta)
                        ELSE Num(0),
     stock          |-> IF given(row.stock) THEN numberOrZero(row.stock) ELSE Num(0),
     idMarca        |-> IF given(row.idMarca) THEN trim(row.idMarca) ELSE Undefined,
     idColor        |-> Null]

\* The row is skipped: return null, filtered out afterwards.
skipped(data) ==
    \/ ~Truthy(data.NombreProducto)
    \/ ~data.has.PrecioVenta
    \/ ~data.has.stock
    \/ ~Truthy(data.idMarca)

RECURSIVE productsToCreate(_)
productsToCreate(rows) ==
    IF rows = <<>> THEN <<>>
    ELSE LET data == productData(Head(rows))
         IN  (IF skipped(data) THEN <<>> ELSE <<data>>) \o productsToCreate(Tail(rows))

\* Product.insertMany(docs, { ordered: false }) validates every document
\* and sends those that pass; the others are left out without an error.
RECURSIVE validated(_)
validated(docs) ==
    IF docs = <<>> THEN <<>>
    ELSE (IF SchemaOk(Head(docs)) THEN <<Head(docs)>> ELSE <<>>) \o validated(Tail(docs))

\* The documents the store inserts, with their ids: those sent but the
\* ones it refuses (refused: positions in the array sent).
RECURSIVE inserted(_, _, _, _, _)
inserted(sent, i, refused, id, now) ==
    IF i > Len(sent) THEN {}
    ELSE IF i \in refused THEN inserted(sent, i + 1, refused, id, now)
    ELSE {Doc(id, sent[i].NombreProducto, sent[i].PrecioVenta.v, sent[i].stock.v,
              sent[i].idMarca, sent[i].idColor, Null, now)}
         \cup inserted(sent, i + 1, refused, id + 1, now)

\* error.writeErrors.map(e => ({ index: e.index, rowData: productsToCreate[e.index] }))
RECURSIVE writeErrors(_, _, _, _)
writeErrors(docs, sent, i, refused) ==
    IF i > Len(sent) THEN <<>>
    ELSE (IF i \in refused
          THEN <<[index |-> i - 1, message |-> "write error", rowData |-> docs[i]]>>
          ELSE <<>>) \o writeErrors(docs, sent, i + 1, refused)

uploadMassProducts(p, file, refusals, storeOk) ==
    LET rid     == nreq + 1
        docs    == productsToCreate(file.rows)
        sent    == validated(docs)
        refused == refusals \cap (1..Len(sent))
    IN
    /\ Free(p)
    /\ nreq < MaxRequests
    /\ nreq' = rid
    /\ req' = [req EXCEPT ![p] = [op |-> "uploadMassProducts", rid |-> rid, file |-> file]]
    /\ loc' = [loc EXCEPT ![p] = [op |-> "uploadMassProducts"]]
    /\ IF ~file.present
       THEN /\ Respond(p, [status |-> 400, message |-> "No se subio ningun archivo Excel."])
            /\ UNCHANGED <<products, clock, nextId>>
       ELSE IF Len(file.rows) = 0
       THEN /\ Respond(p, [status |-> 400,
                           message |-> "El archivo Excel esta vacio o solo contiene encabezados."])
            /\ UNCHANGED <<products, clock, nextId>>
       ELSE IF Len(docs) = 0
       THEN /\ Respond(p, [status |-> 400,
                           message |-> "No se encontraron productos validos para importar en el archivo."])
            /\ UNCHANGED <<products, clock, nextId>>
       ELSE IF ~storeOk
       THEN /\ Respond(p, [status |-> 500, message |-> "Error procesando el archivo Excel.",
                           error |-> StoreUnavailable])
            /\ UNCHANGED <<products, clock, nextId>>
       ELSE \E now \in {clock, clock + 1} :
                LET result == inserted(sent, 1, refused, nextId, now)
                IN  /\ now =< MaxClock
                    /\ nextId + Cardinality(result) - 1 =< MaxProducts
                    /\ products' = products \cup result
                    /\ clock' = now
                    /\ nextId' = nextId + Cardinality(result)
                    /\ Respond(p, [status |-> 201,
                                   insertedCount |-> Cardinality(result),
                                   processed |-> Len(docs),
                                   errors |-> writeErrors(docs, sent, 1, refused)])
    /\ pc' = [pc EXCEPT ![p] = "done"]
    /\ UNCHANGED <<destroyLog, mailTasks, roles, admins, refs, users>>

----------------------------------------------------------------------------
(* Specification of the writes to the Producto collection: createProduct,
   updateProduct and uploadMassProducts served concurrently, with prices
   and stocks of either sign *)

GoodRow == Row(<<"a">>, <<"5">>, <<"1">>, <<"m1">>)

\* Rows of a sheet: a complete one, a negative stock, a negative price, a
\* price that is no number, a row without a name and a brand that is no
\* ObjectId.
SheetRows ==
    {GoodRow,
     Row(<<"b">>, <<"5">>, <<"-", "3">>, <<"m1">>),
     Row(<<"b">>, <<"-", "5">>, <<"1">>, <<"m1">>),
     Row(<<"b">>, <<"x">>, <<"1">>, <<"m1">>),
     Row(Undefined, <<"5">>, <<"1">>, <<"m1">>),
     Row(<<"b">>, <<"5">>, <<"1">>, <<"x">>)}

Sheets ==
    {NoSheet} \cup {Sheet(rows) : rows \in UNION {[1..n -> SheetRows] : n \in 0..MaxRows}}

WriteBodies ==
    {Body(<<"a">>, <<"5">>, <<"1">>, <<"m1">>, Undefined),
     Body(<<"a">>, <<"5">>, <<"-", "3">>, <<"m1">>, Undefined),
     Body(<<"a">>, <<"-", "5">>, <<"1">>, <<"m1">>, Undefined),
     Body(<<"a">>, <<"7">>, <<"x">>, <<"m1">>, Undefined),
     Body(Undefined, <<"5">>, <<"1">>, <<"m1">>, Undefined)}

\* The bodies of the update requests: those that carry a name.
NamedWriteBodies == {b \in WriteBodies : Truthy(b.NombreProducto)}

InitImport ==
    /\ \/ products = {} /\ nextId = 1
       \/ products = {Doc(1, <<"a">>, 5, 1, <<"m1">>, Null, Null, 0)} /\ nextId = 2
    /\ clock = 0 /\ nreq = 0
    /\ pc = [p \in Procs |-> "idle"]
    /\ req = [p \in Procs |-> NoReq]
    /\ loc = [p \in Procs |-> NoLoc]
    /\ res = [p \in Procs |-> NoRes]
    /\ destroyLog = <<>> /\ mailTasks = <<>>
    /\ roles = RoleNames /\ admins = {} /\ users = {} /\ refs = SeededRefs

NextImport ==
    \/ \E p \in Procs : Free(p) /\ \E b \in WriteBodies, ok \in BOOLEAN :
            createProduct(p, b, FALSE, ok)
    \/ \E p \in Procs : Free(p) /\ \E id \in Ids, b \in NamedWriteBodies :
            updateProduct_read(p, id, b, FALSE)
    \/ \E p \in Procs, ok \in BOOLEAN : updateProduct_write(p, ok)
    \/ \E p \in Procs : Free(p) /\ \E file \in Sheets, refusals \in SUBSET (1..MaxRows),
                                    ok \in BOOLEAN :
            uploadMassProducts(p, file, refusals, ok)
    \/ \E p \in Procs : Recycle(p)

SpecImport == InitImport /\ [][NextImport]_vars

----------------------------------------------------------------------------
(* Specification of concurrent updates: updateProduct requests, with and
   without a new image, on a stored product *)

RaceBodies ==
    {Body(<<"a">>, <<"5">>, <<"1">>, <<"m1">>, Undefined),
     Body(<<"b">>, <<"7">>, <<"x">>, <<"m2">>, <<"c1">>),
     Body(<<"b">>, <<"x">>, <<"2">>, <<"m1">>, Undefined),
     Body(<<"a">>, <<"-", "5">>, <<"1">>, <<"m1">>, Undefined)}

InitRace ==
    /\ products = {StoredProduct}
    /\ clock = 0 /\ nextId = 2 /\ nreq = 0
    /\ pc = [p \in Procs |-> "idle"]
    /\ req = [p \in Procs |-> NoReq]
    /\ loc = [p \in Procs |-> NoLoc]
    /\ res = [p \in Procs |-> NoRes]
    /\ destroyLog = <<>> /\ mailTasks = <<>>
    /\ roles = RoleNames /\ admins = {} /\ users = {} /\ refs = SeededRefs

NextRace ==
    \/ \E p \in Procs : Free(p) /\ \E id \in Ids, b \in RaceBodies, f \in BOOLEAN :
            updateProduct_read(p, id, b, f)
    \/ \E p \in Procs, ok \in BOOLEAN : updateProduct_write(p, ok)
    \/ \E p \in Procs : Recycle(p)

SpecRace == InitRace /\ [][NextRace]_vars

----------------------------------------------------------------------------
(* Vocabulary of the properties: the request as its sender reads it *)

IsList(p) == req[p].op = "getAllProducts"
Answered(p, st) == pc[p] = "done" /\ res[p].status = st

Given(s) == s # Undefined /\ s # <<>>
AllDigits(s) == s # Undefined /\ Len(s) > 0 /\ \A i \in 1..Len(s) : s[i] \in Digits
NonNumeric(s) == s # Undefined /\ s # <<>> /\ ~AllDigits(s)

\* The number a string of decimal digits denotes.
RECURSIVE Decimal(_)
Decimal(s) ==
    IF Len(s) = 0 THEN 0
    ELSE 10 * Decimal(SubSeq(s, 1, Len(s) - 1)) + DigitVal(s[Len(s)])

\* The page and the limit a request asks for: 1 and 8 when it names none.
AskedPage(q) == IF q.page = Undefined THEN 1 ELSE Decimal(q.page)
AskedLimit(q) == IF q.limit = Undefined THEN 8 ELSE Decimal(q.limit)
Paged(q) ==
    /\ q.page = Undefined \/ (AllDigits(q.page) /\ Decimal(q.page) > 0)
    /\ q.limit = Undefined \/ (AllDigits(q.limit) /\ Decimal(q.limit) > 0)

SameLetters(a, b) ==
    /\ Len(a) = Len(b)
    /\ \A i \in 1..Len(a) : ToLower(a[i]) = ToLower(b[i])

\* d satisfies the filters the query names: name match without regard to
\* case, brand equality, color equality, inclusive price range.
Satisfies(q, d) ==
    /\ Given(q.search) =>
          \E i \in 1..Len(d.NombreProducto) : \E j \in i..Len(d.NombreProducto) :
              SameLetters(SubSeq(d.NombreProducto, i, j), q.search)
    /\ Given(q.marca) => d.idMarca = q.marca
    /\ Given(q.color) => d.idColor = q.color
    /\ Given(q.minPrice) => d.PrecioVenta >= Decimal(q.minPrice)
    /\ Given(q.maxPrice) => d.PrecioVenta =< Decimal(q.maxPrice)

Matching(q) == {d \in products : Satisfies(q, d)}

\* a comes no later than b in the order the query selects.
NoLater(q, a, b) ==
    CASE q.sort = <<"price-asc">>  -> a.PrecioVenta =< b.PrecioVenta
      [] q.sort = <<"price-desc">> -> a.PrecioVenta >= b.PrecioVenta
      [] OTHER                     -> a.createdAt >= b.createdAt

Before(q, a, b) == NoLater(q, a, b) /\ ~NoLater(q, b, a)

----------------------------------------------------------------------------
(* Properties of the product list, specification SpecQuery *)

\* C2: with no writes under way, the totalProducts of a list response is
\* the number of stored products that satisfy the filters of the request,
\* whatever its page, limit and sort.
C2_TotalCountsTheFilter ==
    \A p \in Procs :
        IsList(p) /\ Answered(p, 200) =>
            res[p].totalProducts = Cardinality(Matching(req[p].query))

C2_Witness ==
    \E p \in Procs :
        /\ IsList(p) /\ Answered(p, 200)
        /\ Given(req[p].query.search) /\ Given(req[p].query.marca)
        /\ Given(req[p].query.minPrice) /\ Given(req[p].query.maxPrice)
        /\ res[p].totalProducts = 1
        /\ Cardinality(products) = 4

\* C3: for a positive page p and limit l and n matching products, the
\* response holds the items at positions (p-1)*l+1 .. min(p*l, n) of the
\* matching set in the selected order, and totalPages = ceil(n / l).
C3_PageIsTheSlice ==
    \A p \in Procs :
        IsList(p) /\ Answered(p, 200) /\ Paged(req[p].query) =>
            LET q     == req[p].query
                pg    == AskedPage(q)
                l     == AskedLimit(q)
                n     == Cardinality(Matching(q))
                items == res[p].products
                last  == IF pg * l < n THEN pg * l ELSE n
            IN  /\ Len(items) = (IF last > (pg - 1) * l THEN last - (pg - 1) * l ELSE 0)
                /\ \A i \in 1..Len(items) :
                      LET pos == (pg - 1) * l + i
                      IN  /\ items[i] \in Matching(q)
                          /\ Cardinality({d \in Matching(q) : Before(q, d, items[i])}) < pos
                          /\ Cardinality({d \in Matching(q) : NoLater(q, d, items[i])}) >= pos
                /\ \A i, j \in 1..Len(items) : i < j => items[i] # items[j]
                /\ \A i, j \in 1..Len(items) : i < j => NoLater(q, items[i], items[j])
                /\ ~isNaN(res[p].totalPages)
                /\ res[p].totalPages.v * l >= n
                /\ (res[p].totalPages.v - 1) * l < n

\* The example of the specification: 20 matching products, page 2, limit
\* 8, newest first: items 9 to 16 and three pages.
C3_Witness ==
    \E p \in Procs :
        /\ IsList(p) /\ Answered(p, 200)
        /\ req[p].query = ExampleQuery
        /\ Cardinality(Matching(req[p].query)) = 20
        /\ [i \in 1..8 |-> res[p].products[i]._id] = [i \in 1..8 |-> 13 - i]
        /\ res[p].totalPages = Num(3)

\* C4: the skip passed to the store is (page - 1) * limit, with page 1 and
\* limit 8 for a request that names none.
C4_SkipIsPageTimesLimit ==
    \A p \in Procs :
        IsList(p) /\ pc[p] = "find"
        /\ (req[p].query.page = Undefined \/ AllDigits(req[p].query.page))
        /\ (req[p].query.limit = Undefined \/ AllDigits(req[p].query.limit)) =>
            /\ loc[p].skip = Num((AskedPage(req[p].query) - 1) * AskedLimit(req[p].query))
            /\ loc[p].limitNum = Num(AskedLimit(req[p].query))

C4_Witness ==
    \E p \in Procs :
        /\ IsList(p) /\ pc[p] = "find"
        /\ req[p].query.page = Undefined /\ req[p].query.limit = Undefined
        /\ loc[p].skip = Num(0) /\ loc[p].limitNum = Num(8)

\* C5: a list request with a non-numeric minPrice, maxPrice, page or limit
\* is never answered with an error, and no NaN bound, skip or limit of it
\* reaches the store.
C5_NonNumericIsDefaulted ==
    \A p \in Procs :
        IsList(p) /\ (\/ NonNumeric(req[p].query.minPrice)
                      \/ NonNumeric(req[p].query.maxPrice)
                      \/ NonNumeric(req[p].query.page)
                      \/ NonNumeric(req[p].query.limit)) =>
            /\ res[p].status # 500
            /\ pc[p] = "find" =>
                  /\ ~isNaN(loc[p].skip) /\ ~isNaN(loc[p].limitNum)
                  /\ loc[p].filterObject.gte.set => ~isNaN(loc[p].filterObject.gte.n)
                  /\ loc[p].filterObject.lte.set => ~isNaN(loc[p].filterObject.lte.n)

\* C6: the page is ordered by price ascending for 'price-asc', by price
\* descending for 'price-desc' and newest first for 'newest', for no sort
\* and for any other sort value.
C6_SortFollowsTheParameter ==
    \A p \in Procs :
        IsList(p) /\ Answered(p, 200) =>
            LET q     == req[p].query
                items == res[p].products
            IN  /\ \A i \in 1..(Len(items) - 1) :
                      CASE q.sort = <<"price-asc">> ->
                             items[i].PrecioVenta =< items[i + 1].PrecioVenta
                        [] q.sort = <<"price-desc">> ->
                             items[i].PrecioVenta >= items[i + 1].PrecioVenta
                        [] OTHER ->
                             items[i].createdAt >= items[i + 1].createdAt
                /\ loc[p].skip = Num(0) /\ Len(items) > 0 =>
                      \A d \in products :
                          Satisfies(q, d) =>
                              CASE q.sort = <<"price-asc">> ->
                                     items[1].PrecioVenta =< d.PrecioVenta
                                [] q.sort = <<"price-desc">> ->
                                     items[1].PrecioVenta >= d.PrecioVenta
                                [] OTHER ->
                                     items[1].createdAt >= d.createdAt

\* An unrecognized sort value, answered newest first although the prices
\* of the page run against that order.
C6_Witness ==
    \E p \in Procs :
        /\ IsList(p) /\ Answered(p, 200)
        /\ req[p].query.sort = <<"zz">>
        /\ Len(res[p].products) >= 2
        /\ res[p].products[1].createdAt > res[p].products[2].createdAt
        /\ res[p].products[1].PrecioVenta # res[p].products[2].PrecioVenta

----------------------------------------------------------------------------
(* Properties of the product controller, specification Spec *)

IsUpdate(p) == req[p].op = "updateProduct"
IsCreate(p) == req[p].op = "createProduct"

\* The destroy calls made for the request rid, for the reason why.
DestroyCalls(rid, why) ==
    {i \in 1..Len(destroyLog) : destroyLog[i].rid = rid /\ destroyLog[i].why = why}

PriceOf(store, id) == (CHOOSE d \in store : d._id = id).PrecioVenta
Stored(store, id) == \E d \in store : d._id = id

\* Slot p takes the step from position a to position b.
Step(p, a, b) == pc[p] = a /\ pc'[p] = b

\* C1 as claimed: in every interleaving, the totalProducts of a list
\* response is the number of records that match the filter in the store
\* state from which the page was read.
C1_TotalConsistentWithPageRead ==
    [][\A p \in Procs :
          Step(p, "find", "done") /\ IsList(p) /\ res'[p].status = 200 =>
              res'[p].totalProducts = Cardinality(Matching(req[p].query))]_vars

\* C1 as amended: totalProducts is the number of records that match the
\* filter in the store state read by the count query, and the response
\* carries that number and its page count whatever is written before the
\* page is read.
C1_TotalIsTheCountRead ==
    [][\A p \in Procs :
          /\ Step(p, "idle", "find") =>
                loc'[p].totalProducts = Cardinality(Matching(req'[p].query))
          /\ Step(p, "find", "done") /\ IsList(p) /\ res'[p].status = 200 =>
                /\ res'[p].totalProducts = loc[p].totalProducts
                /\ res'[p].totalPages = loc[p].totalPages]_vars

\* A response whose count was read before a write and whose page after it.
C1_Witness ==
    \E p \in Procs :
        /\ IsList(p) /\ Answered(p, 200)
        /\ res[p].totalProducts = 0
        /\ Len(res[p].products) = 1

\* C7 as claimed: in every interleaving, an update dispatches the
\* notification exactly when the stored price right before its write
\* differs from the stored price right after it.
C7_NotifiesIffStoredPriceChanges ==
    [][\A p \in Procs :
          Step(p, "write", "done") /\ IsUpdate(p) =>
              (Len(mailTasks') > Len(mailTasks)
                 <=> /\ Stored(products, req[p].id) /\ Stored(products', req[p].id)
                     /\ PriceOf(products, req[p].id) # PriceOf(products', req[p].id))]_vars

\* C7 as amended: an update dispatches the notification exactly when its
\* write succeeds and the price it read with findById differs from the
\* stored price after its write; that is the stored price right before the
\* write whenever no other update has changed the price in between.
C7_NotifiesIffReadPriceChanges ==
    [][\A p \in Procs :
          Step(p, "write", "done") /\ IsUpdate(p) =>
              /\ Len(mailTasks') > Len(mailTasks)
                    <=> /\ res'[p].status = 200
                        /\ loc[p].oldPrice # PriceOf(products', req[p].id)
              /\ Stored(products, req[p].id)
                    /\ PriceOf(products, req[p].id) = loc[p].oldPrice =>
                    (Len(mailTasks') > Len(mailTasks)
                       <=> PriceOf(products, req[p].id) # PriceOf(products', req[p].id))
              /\ Len(mailTasks') =< Len(mailTasks) + 1]_vars

\* An update that wrote the price another update had already stored, and
\* notified of a change.
C7_Witness ==
    \E p, o \in Procs : \E i \in 1..Len(mailTasks) :
        /\ p # o
        /\ IsUpdate(p) /\ Answered(p, 200) /\ IsUpdate(o) /\ Answered(o, 200)
        /\ req[o].rid < req[p].rid
        /\ mailTasks[i].rid = req[p].rid
        /\ res[o].product.PrecioVenta = res[p].product.PrecioVenta

\* C8: while the store write of an update is still to come, no deletion
\* of the product's old image has been dispatched.
C8_OldImageDestroyedAfterWrite ==
    \A p \in Procs :
        IsUpdate(p) /\ pc[p] = "write" => DestroyCalls(req[p].rid, "old image") = {}

\* C9: when createProduct came with an image and its store write fails,
\* the handler requests the deletion of that image exactly once and
\* answers with an error; the outcome of the deletion changes no response
\* and brings no further request.
C9_FailedCreateDestroysUploadOnce ==
    [][/\ \A p \in Procs :
            /\ Step(p, "idle", "done") /\ req'[p].op = "createProduct"
            /\ req'[p].file.present /\ res'[p].status # 400
            /\ products' = products
            =>  /\ res'[p].status = 500
                /\ Len(destroyLog') = Len(destroyLog) + 1
                /\ destroyLog'[Len(destroyLog')].publicId = req'[p].file.filename
                /\ \A i \in 1..Len(destroyLog) :
                      /\ destroyLog'[i] = destroyLog[i]
                      /\ destroyLog[i].publicId # req'[p].file.filename
       /\ (Len(destroyLog') = Len(destroyLog) /\ destroyLog' # destroyLog) =>
              /\ res' = res /\ pc' = pc
              /\ \A i \in 1..Len(destroyLog) :
                    destroyLog'[i].publicId = destroyLog[i].publicId]_vars

\* The deletion requested after a failed create has failed in its turn.
C9_Witness ==
    \E p \in Procs : \E i \in 1..Len(destroyLog) :
        /\ IsCreate(p) /\ Answered(p, 500) /\ req[p].file.present
        /\ destroyLog[i].publicId = req[p].file.filename
        /\ destroyLog[i].state = "error"

\* C10: an update that dispatches the notification answers in the same
\* step with the success response and the updated product, and no step of
\* the notification, whatever its outcome, touches a response.
C10_ResponseIgnoresNotification ==
    [][/\ \A p \in Procs :
            Step(p, "write", "done") /\ IsUpdate(p)
            /\ Len(mailTasks') > Len(mailTasks) =>
                /\ res'[p].status = 200
                /\ res'[p].product \in products'
                /\ res'[p].product._id = req[p].id
       /\ (Len(mailTasks') = Len(mailTasks) /\ mailTasks' # mailTasks) =>
              res' = res /\ pc' = pc]_vars

\* An update answered with success whose notification the mail provider
\* has refused.
C10_Witness ==
    \E p \in Procs : \E i \in 1..Len(mailTasks) :
        /\ IsUpdate(p) /\ Answered(p, 200)
        /\ mailTasks[i].rid = req[p].rid
        /\ mailTasks[i].outcome = "provider failed"

----------------------------------------------------------------------------
(* Properties of updateProduct and deleteProduct, under Spec *)

\* A decimal numeral, with or without a sign, and the number it denotes.
Numeral(s) == AllDigits(s) \/ (Len(s) > 1 /\ s[1] = "-" /\ AllDigits(Tail(s)))
NumeralValue(s) == IF s[1] = "-" THEN 0 - Decimal(Tail(s)) ELSE Decimal(s)

TheProduct(store, id) == CHOOSE d \in store : d._id = id

\* The store write of the update in slot p succeeds in this step.
UpdateWrites(p) == Step(p, "write", "done") /\ IsUpdate(p) /\ res'[p].status = 200

\* C11 as claimed: an update stores the price (the stock) of the request
\* when it is a number, and leaves the price (the stock) as it is stored
\* right before the write when it is not.
C11_UnparsedKeepsStoredValue ==
    [][\A p \in Procs :
          UpdateWrites(p) =>
              LET body   == req[p].body
                  before == TheProduct(products, req[p].id)
                  after  == TheProduct(products', req[p].id)
              IN  /\ after.PrecioVenta = IF Numeral(body.PrecioVenta)
                                         THEN NumeralValue(body.PrecioVenta)
                                         ELSE before.PrecioVenta
                  /\ after.stock = IF Numeral(body.stock)
                                   THEN NumeralValue(body.stock)
                                   ELSE before.stock]_vars

\* C11, amended: the product the handler holds after findById is the
\* stored one; an update whose write succeeds stores the price (the stock)
\* of the request when it is a number, and the price (the stock) of the
\* product as the handler read it when it is not.
C11_UnparsedKeepsReadValue ==
    [][\A p \in Procs :
          /\ Step(p, "idle", "write") /\ req'[p].op = "updateProduct" =>
                 loc'[p].productBeforeUpdate = TheProduct(products, req'[p].id)
          /\ UpdateWrites(p) =>
                 LET body  == req[p].body
                     read  == loc[p].productBeforeUpdate
                     after == TheProduct(products', req[p].id)
                 IN  /\ after.PrecioVenta = IF Numeral(body.PrecioVenta)
                                            THEN NumeralValue(body.PrecioVenta)
                                            ELSE read.PrecioVenta
                     /\ after.stock = IF Numeral(body.stock)
                                      THEN NumeralValue(body.stock)
                                      ELSE read.stock]_vars

\* An update with a stock that is no number has kept the stock 2 an
\* earlier update stored, and has stored its price 7.
C11_Witness ==
    \E p \in Procs :
        /\ IsUpdate(p) /\ Answered(p, 200)
        /\ ~Numeral(req[p].body.stock) /\ req[p].body.PrecioVenta = <<"7">>
        /\ \E d \in products : d._id = req[p].id /\ d.stock = 2 /\ d.PrecioVenta = 7

\* C15: an updateProduct or deleteProduct that answers while no product
\* has the id it names answers 404, unless it reports that the payload is
\* invalid or the store out of reach.
C15_AbsentProductIsNotFound ==
    [][\A p \in Procs :
          /\ pc[p] # "done" /\ pc'[p] = "done"
          /\ req'[p].op \in {"updateProduct", "deleteProduct"}
          /\ ~Stored(products, req'[p].id)
          /\ res'[p].status = 500 => res'[p].error \notin {StoreUnavailable, "ValidationError"}
          => res'[p] = NotFoundResponse]_vars

----------------------------------------------------------------------------
(* Properties of the generic controller, under SpecCatalog *)

\* Slot p receives a request for the generic handler op and answers it.
Handles(p, op) == Step(p, "idle", "done") /\ req'[p].op = op

\* The answer of slot p is not the report of a store that is out of reach.
StoreReached(p) == res'[p].status = 500 => res'[p].error # StoreUnavailable

Resolves(coll, id) == \E d \in coll : d._id = id

\* C12: whenever updateOne is asked for an id that resolves to no record of
\* the entity, it answers 404 with no record and leaves the collections as
\* they are; for an id that resolves, a 200 answer carries the record as it
\* is stored after the update.
C12_UpdateOfAbsentIdIsNotFound ==
    [][\A p \in Procs :
          Handles(p, "updateOne") /\ StoreReached(p) =>
              LET M  == req'[p].model
                  id == req'[p].id
              IN  IF ~Resolves(refs[M], id)
                  THEN res'[p] = ItemNotFound /\ refs' = refs
                  ELSE res'[p].status = 200 =>
                           res'[p].item._id = id /\ res'[p].item \in refs'[M]]_vars

\* C13: whenever deleteOne is asked for an id that resolves to no record of
\* the entity, it answers 404 and leaves the collections as they are; for an
\* id that resolves it removes that record, no other, and answers with the
\* id.
C13_DeleteOfAbsentIdIsNotFound ==
    [][\A p \in Procs :
          Handles(p, "deleteOne") /\ StoreReached(p) =>
              LET M  == req'[p].model
                  id == req'[p].id
              IN  IF ~Resolves(refs[M], id)
                  THEN res'[p] = ItemNotFound /\ refs' = refs
                  ELSE /\ res'[p].status = 200 /\ res'[p]._id = id
                       /\ refs' = [refs EXCEPT ![M] = {d \in @ : d._id # id}]]_vars

\* C14: createOne answers 201 with a record that is then stored, or, when
\* the store refuses the payload, a client error (4xx) with a message, the
\* collections being left as they are.
C14_RejectedCreateIsClientError ==
    [][\A p \in Procs :
          Handles(p, "createOne") /\ StoreReached(p) =>
              \/ res'[p].status = 201 /\ res'[p].item \in refs'[req'[p].model]
              \/ res'[p].status \in 400..499 /\ refs' = refs]_vars

\* C20: a deleteOne of a reference entity leaves the Producto collection as
\* it is, whatever the products refer to.
C20_DeleteDoesNotCascade ==
    [][\A p \in Procs : Handles(p, "deleteOne") => products' = products]_vars

\* A brand is deleted and a product still names it.
C20_Witness ==
    \E p \in Procs :
        /\ req[p].op = "deleteOne" /\ Answered(p, 200) /\ req[p].model = "Marca"
        /\ ~Resolves(refs["Marca"], req[p].id)
        /\ \E d \in products : d.idMarca = req[p].id

----------------------------------------------------------------------------
(* Properties of the role seeding, under SpecSeed *)

\* A run of createInitialRoles in slot p has finished, and none of its
\* store operations failed.
SeedingFinished(p) ==
    /\ req[p].op = "createInitialRoles" /\ pc[p] = "done"
    /\ loc[p].count = "ok" /\ loc[p].admin # "failed" /\ loc[p].cliente # "failed"

\* C18: once a run of createInitialRoles has finished without a failed
\* store operation, and no other run is saving, the Role collection holds
\* admin and cliente, whatever it held when the run started.
C18_SeedingCompletesTheRoles ==
    \A p \in Procs :
        SeedingFinished(p) /\ (\A o \in Procs : pc[o] # "saving") => roles = RoleNames

----------------------------------------------------------------------------
(* Properties of the auth gate and the routes, under SpecRoutes *)

\* The request in slot p carries a bearer credential that verifies: its
\* Authorization header is the scheme Bearer, a blank and a token signed
\* with the secret that has not expired.
CarriesValidBearer(p) ==
    LET h == req[p].authorization
    IN  /\ Len(h) = 3 /\ h[1] = "Bearer" /\ h[2] = " "
        /\ h[3] \in DOMAIN IssuedTokens
        /\ IssuedTokens[h[3]].key = JWT_SECRET
        /\ clock < IssuedTokens[h[3]].exp

\* The gate runs for the request in slot p in this step.
GateRuns(p) == Stage(p) = "protect" /\ loc'[p] # loc[p]

\* C16: the gate lets the request continue, with the identity of the token
\* attached and nothing sent, exactly when the request carries a bearer
\* credential that verifies; otherwise it answers 401, and the handler of
\* a request answered 401 by the gate has not run.
C16_GateAdmitsExactlyValidBearers ==
    [][\A p \in Procs :
          GateRuns(p) =>
              IF CarriesValidBearer(p)
              THEN /\ pc'[p] = "chain" /\ loc'[p].at = loc[p].at + 1
                   /\ req'[p].userId = IssuedTokens[req[p].authorization[3]].id
                   /\ res'[p] = NoRes
              ELSE /\ pc'[p] = "done" /\ res'[p].status = 401
                   /\ ~loc'[p].handled]_vars

\* The handlers that write to the store.
WritingHandlers ==
    {"createProduct", "updateProduct", "deleteProduct", "uploadMassProducts",
     "createOne", "updateOne", "deleteOne",
     "updateUser", "deleteUser", "registerAdmin", "registerClient"}

\* The gate has let the request in slot p through: an identity is attached
\* to it, that of the token its header ends with, which is signed with the
\* secret and has not expired.
PassedGate(p) ==
    LET h == req[p].authorization
    IN  /\ req[p].userId # Undefined
        /\ h # Undefined
        /\ h[Len(h)] \in DOMAIN IssuedTokens
        /\ IssuedTokens[h[Len(h)]].key = JWT_SECRET
        /\ clock < IssuedTokens[h[Len(h)]].exp
        /\ req[p].userId = IssuedTokens[h[Len(h)]].id

HandlerRan(p) == loc[p].op = "route" /\ loc[p].handled

\* C17 as claimed: the handler of an endpoint that writes to the store has
\* run only for requests that passed the gate.
C17_WritesAreGated ==
    \A p \in Procs :
        HandlerRan(p) /\ req[p].op \in WritingHandlers => PassedGate(p)

\* C17, amended: the handler of an endpoint that writes to the store,
\* other than the registration of clients, has run only for requests that
\* passed the gate.
C17_WritesButClientRegistrationAreGated ==
    \A p \in Procs :
        HandlerRan(p) /\ req[p].op \in WritingHandlers \ {"registerClient"} => PassedGate(p)

\* The handler of updateUser has run for a request with a valid token.
C17_Witness ==
    \E p \in Procs : HandlerRan(p) /\ req[p].op = "updateUser" /\ PassedGate(p)

----------------------------------------------------------------------------
(* Properties of the user handlers, under SpecUsers *)

\* The text is a bcrypt hash whose digest was not computed from a hash.
HashedOnce(s) ==
    /\ Len(s) >= 2 /\ s[1] = "$2a$10$"
    /\ ~(Len(s) >= 3 /\ s[3] = "$2a$10$")

\* The step is the save of the handler in slot p, and the save succeeds.
SaveSucceeds(p) ==
    /\ pc[p] \in {"saveNew", "saveUser"} /\ pc'[p] = "done"
    /\ res'[p].status \in {200, 201}

\* The request in slot p asks for a password to be stored.
ChangesPassword(p) ==
    \/ req[p].op \in {"registerAdmin", "registerClient"}
    \/ req[p].op = "updateUser" /\ Truthy(req[p].body.password)
       /\ Len(req[p].body.password) >= 6

\* The user the request in slot p is about.
TargetId(p) == IF req[p].op = "updateUser" THEN req[p].id ELSE NewObjectId(req[p].rid)

PasswordOf(coll, id) == {u.password : u \in {v \in coll : v._id = id}}

\* C19: every stored password is a hash computed once from the text a
\* request gave, never that text; a successful save of registerAdmin,
\* registerClient or of an updateUser that carries a password of 6 or more
\* characters stores a fresh hash of that password, every other successful
\* save leaves the stored password as it was, and no other step changes the
\* password of a stored user.
C19_PasswordHashedExactlyOnChange ==
    /\ \A u \in users : HashedOnce(u.password)
    /\ [][/\ \A u \in users' : HashedOnce(u.password)
          /\ \A p \in Procs :
                SaveSucceeds(p) =>
                   IF ChangesPassword(p)
                   THEN /\ PasswordOf(users', TargetId(p))
                             = {bcryptHash(req[p].body.password, req[p].rid)}
                        /\ PasswordOf(users, TargetId(p)) # PasswordOf(users', TargetId(p))
                   ELSE PasswordOf(users', TargetId(p)) = PasswordOf(users, TargetId(p))
          /\ \A u \in users, v \in users' :
                u._id = v._id /\ u.password # v.password =>
                   \E p \in Procs :
                      SaveSucceeds(p) /\ ChangesPassword(p) /\ TargetId(p) = u._id
       ]_vars

\* An updateUser that changed the password of a user and a later updateUser
\* that changed only the name of the same user have both succeeded, and the
\* stored password is the hash the first one computed.
C19_Witness ==
    \E p \in Procs, q \in Procs :
        /\ p # q
        /\ pc[p] = "done" /\ req[p].op = "updateUser" /\ res[p].status = 200
        /\ pc[q] = "done" /\ req[q].op = "updateUser" /\ res[q].status = 200
        /\ req[p].id = req[q].id /\ req[p].rid < req[q].rid
        /\ ChangesPassword(p)
        /\ ~Truthy(req[q].body.password) /\ Truthy(req[q].body.nombre)
        /\ \E u \in users :
              /\ u._id = req[p].id
              /\ u.nombre = req[q].body.nombre
              /\ u.password = bcryptHash(req[p].body.password, req[p].rid)

----------------------------------------------------------------------------
(* Properties of the reference collections, under SpecCatalog *)

\* C21: in each of the four reference collections, no two records have the
\* same nombre.
C21_NamesAreUnique ==
    \A M \in Entities :
        \A d \in refs[M], e \in refs[M] : d.nombre = e.nombre => d = e

----------------------------------------------------------------------------
(* Properties of the writes to the Producto collection, under SpecImport *)

\* C22: every stored product has a name, a brand reference, a sale price
\* that is not negative and a stock that is a natural number.
C22_StoredProductsAreWellFormed ==
    \A d \in products :
        /\ Truthy(d.NombreProducto)
        /\ Truthy(d.idMarca)
        /\ d.PrecioVenta >= 0
        /\ d.stock \in Nat

\* C23: a mass upload that is answered 201 reports every data row of the
\* sheet: the count of inserted rows plus the number of reported failures
\* is the number of data rows.
C23_EveryRowIsInsertedOrReported ==
    \A p \in Procs :
        req[p].op = "uploadMassProducts" /\ Answered(p, 201) =>
            res[p].insertedCount + Len(res[p].errors) = Len(req[p].file.rows)

----------------------------------------------------------------------------
(* Properties of concurrent updates, under SpecRace *)

\* The update in slot p is answered in this step.
UpdateAnswers(p) == Step(p, "write", "done") /\ IsUpdate(p)

\* A 500 answer of the update in slot p is due to the request itself (a
\* negative price) or to a store that is out of reach.
FailsOnItsOwn(p) ==
    res'[p].status = 500 =>
        \/ res'[p].error = StoreUnavailable
        \/ /\ res'[p].error = "ValidationError"
           /\ Numeral(req[p].body.PrecioVenta) /\ NumeralValue(req[p].body.PrecioVenta) < 0

\* The product as the request in slot p sets it, given the image it keeps.
Written(p, imagen) ==
    LET body == req[p].body
        read == loc[p].productBeforeUpdate
    IN  Doc(req[p].id, body.NombreProducto,
            IF Numeral(body.PrecioVenta) THEN NumeralValue(body.PrecioVenta)
            ELSE read.PrecioVenta,
            IF Numeral(body.stock) THEN NumeralValue(body.stock) ELSE read.stock,
            body.idMarca,
            IF Given(body.idColor) THEN body.idColor ELSE Null,
            IF req[p].file.present THEN req[p].file.path ELSE imagen,
            read.createdAt)

\* C24 as claimed: an update fails only on its own account, and the product
\* a successful write leaves in the store is, in every field, the product
\* of that request alone: the data of the request over the product it read.
C24_StoredIsLastWritersProduct ==
    [][\A p \in Procs :
          UpdateAnswers(p) =>
              /\ FailsOnItsOwn(p)
              /\ res'[p].status = 200 =>
                    TheProduct(products', req[p].id)
                        = Written(p, loc[p].productBeforeUpdate.imagen)]_vars

\* C24, amended: an update fails only on its own account, and a successful
\* write leaves in the store the update data of that request in every field
\* the data holds; the image reference is the one of the request when it
\* carries an image, and is left as it is stored otherwise.
C24_StoredIsLastWritersData ==
    [][\A p \in Procs :
          UpdateAnswers(p) =>
              /\ FailsOnItsOwn(p)
              /\ res'[p].status = 200 =>
                    /\ TheProduct(products', req[p].id)
                          = Written(p, TheProduct(products, req[p].id).imagen)
                    /\ products' = (products \ {TheProduct(products, req[p].id)})
                                      \cup {TheProduct(products', req[p].id)}]_vars

\* Two updates of the same product have both succeeded; the one that read
\* first wrote last and carried no image, the other one carried an image
\* and a different name: the product has the name of the first and the
\* image of the second.
C24_Witness ==
    \E p \in Procs, q \in Procs :
        /\ IsUpdate(p) /\ Answered(p, 200) /\ IsUpdate(q) /\ Answered(q, 200)
        /\ req[p].id = req[q].id /\ req[p].rid < req[q].rid
        /\ ~req[p].file.present /\ req[q].file.present
        /\ req[p].body.NombreProducto # req[q].body.NombreProducto
        /\ \E d \in products :
              /\ d._id = req[p].id
              /\ d.NombreProducto = req[p].body.NombreProducto
              /\ d.imagen = req[q].file.path
              /\ d = res[p].product

----------------------------------------------------------------------------
(* Properties of the e-mail addresses and of the responses of the user
   handlers, under SpecUsers *)

\* C25: no two stored users have the same email, and a registration or an
\* update that the store refuses because the email is taken is answered
\* with a client error, never with 500.
C25_EmailsUniqueAndDuplicateIsClientError ==
    /\ \A u \in users, v \in users : u.email = v.email => u = v
    /\ \A p \in Procs :
          /\ pc[p] = "done"
          /\ req[p].op \in {"registerAdmin", "registerClient", "updateUser"}
          /\ res[p].status = 500
          => res[p].error # "E11000"

----------------------------------------------------------------------------
(* Properties of the responses of the auth gate, under SpecRoutes *)

\* C26: whatever the Authorization header, the gate either calls next once
\* and calls res.status(..).json(..) not at all, or calls it exactly once,
\* with 401, and does not call next.
C26_GateAnswersOnceOrPasses ==
    [][\A p \in Procs :
          GateRuns(p) =>
              \/ /\ loc'[p].at = loc[p].at + 1 /\ pc'[p] = "chain"
                 /\ loc'[p].sends = 0 /\ res'[p] = NoRes
              \/ /\ loc'[p].at = loc[p].at /\ pc'[p] = "done"
                 /\ loc'[p].sends = 1 /\ res'[p].status = 401]_vars

----------------------------------------------------------------------------
(* Properties of the uploaded images, under Spec *)

\* The handler in slot p sends its response in this step.
Answers(p) == pc[p] # "done" /\ pc'[p] = "done"

\* A destroy call has been issued for the public_id.
DestroyIssued(log, publicId) == \E i \in 1..Len(log) : log[i].publicId = publicId

\* C27: when createProduct or updateProduct answers a request that came
\* with an image, a stored product refers to that image or a destroy call
\* has been issued for it.
C27_UploadIsReferencedOrDestroyed ==
    [][\A p \in Procs :
          /\ Answers(p)
          /\ req'[p].op \in {"createProduct", "updateProduct"}
          /\ req'[p].file.present
          => \/ \E d \in products' : d.imagen = req'[p].file.path
             \/ DestroyIssued(destroyLog', req'[p].file.filename)]_vars

\* C28: while no update is between its read and its write, no stored
\* product refers to an image for which a destroy call has been issued.
C28_NoProductRefersToDestroyedImage ==
    (\A p \in Procs : pc[p] \in {"idle", "done"}) =>
        \A d \in products :
            Truthy(d.imagen) => ~DestroyIssued(destroyLog, extractPublicId(d.imagen))

----------------------------------------------------------------------------
(* Properties of the accounts, under SpecAccounts *)

\* C29: from a store without administrators, requests that carry no token
\* or a token handed out to a user of role cliente never lead to a stored
\* user whose role is admin.
C29_ClientsCreateNoAdmin ==
    \A u \in users : u.idRol # "admin"

----------------------------------------------------------------------------
(* Properties of the responses of the user handlers, under SpecUsers *)

\* C30: a success response of loginUser, registerAdmin, registerClient,
\* updateUser or getAdminUsers carries no password of a user; and loginUser
\* answers with a token only when a stored user has the email given and a
\* password that is the hash of the password given, the token being signed
\* with the secret for the id and the role name of that user.
C30_NoPasswordOutAndLoginChecksCredentials ==
    [][\A p \in Procs :
          Answers(p) /\ res'[p].status \in {200, 201} =>
              /\ req'[p].op \in {"loginUser", "registerAdmin", "registerClient", "updateUser"}
                    => res'[p].user.password = Undefined
              /\ req'[p].op = "getAdminUsers"
                    => \A a \in res'[p].admins : a.password = Undefined
              /\ req'[p].op = "loginUser" =>
                    \E u \in users :
                        /\ u.email = ToLowerCase(trim(req'[p].body.email))
                        /\ \E salt \in 0..MaxRequests :
                              u.password = bcryptHash(req'[p].body.password, salt)
                        /\ Len(res'[p].token) = 1
                        /\ res'[p].token[1] \in DOMAIN IssuedTokens
                        /\ IssuedTokens[res'[p].token[1]]
                              = [key |-> JWT_SECRET, exp |-> MaxClock + 1,
                                 id |-> u._id, role |-> u.idRol]]_vars

\* A login with the email in capitals and the password of the stored
\* administrator is answered with a token for that user and role, and a
\* list of the administrators is answered too.
C30_Witness ==
    \E p \in Procs, q \in Procs :
        /\ req[p].op = "loginUser" /\ Answered(p, 200)
        /\ req[p].body.email # Ana
        /\ res[p].token = <<sign(StoredAdmin._id, "admin")>>
        /\ res[p].user._id = StoredAdmin._id /\ res[p].user.password = Undefined
        /\ req[q].op = "getAdminUsers" /\ Answered(q, 200)
        /\ res[q].admins # {}

====
